---------------------------- MODULE Spec2Model ----------------------------
(***************************************************************************)
(* A model of one A2AProtocolHandler (ai_agents/a2a/protocol.py) and of   *)
(* the peers and channels around it.                                      *)
(*                                                                         *)
(* The handler under study is Self.  Its peers are processes that speak   *)
(* the wire protocol over websockets accepted by the handler's server;    *)
(* they are the environment.  A peer that answers a Request does so with  *)
(* the same handle_request code (it is another instance of the class).    *)
(***************************************************************************)
EXTENDS Integers, Sequences, FiniteSets, TLC

\* ------------------------------------------------------------------ bounds
MaxMsgs  == 3      \* envelopes constructed by the handler
MaxCalls == 2      \* calls of send_request
MaxNotes == 2      \* calls of send_notification
MaxSteps == 3      \* steps of a workflow definition
MaxParticipants == 3  \* participants of a coordination pattern
MaxTime  == 301    \* the clock's horizon, in seconds
MaxNested == 2     \* requests of a peer whose handler calls the peer back
MaxErrors == 1     \* the errors counted while the heartbeat rounds go on

\* ------------------------------------------------------- program constants
DefaultTTL    == 300   \* A2AMessage.ttl
RequeueDelay  == 1     \* asyncio.sleep(1) before a re-queue
ErrorDelay    == 1     \* asyncio.sleep(1) in the processor's except branch
A2ATimeout       == 30   \* settings.a2a_timeout
CleanupInterval  == 60   \* asyncio.sleep(60) between cleanup passes

\* ------------------------------------------------------------ small domains
Self     == "H"
Peers    == {"P1", "P2"}
Channels == {"w1", "w2"}
NoAgent  == "none"                 \* to_agent = None
NoId     == <<"none", 0>>          \* correlation_id = None
BogusId  == <<"bogus", 0>>         \* an id no request of the handler ever had

\* str(uuid.uuid4()): unique per construction; modelled as (creator, serial)
Uuid(agent, n) == <<agent, n>>

NoneType == "<None>"               \* payload.get("type") when the key is absent
RequestTypes == {"echo", "boom", "nope"}
HandlerTypes == {"echo", "boom"}   \* the types a handler may be registered for
PeerHandlers == {"echo", "boom"}   \* the types a replying peer has registered

EmptyMap == << >>
\* the (request_type, payload) arguments given to send_request; in the last
\* the caller's payload has a "type" key of its own
CallArgs == { << "echo", [msg |-> "hi"] >>,
              << "nope", [msg |-> "hi"] >>,
              << "echo", [type |-> "nope", msg |-> "hi"] >> }

\* the websocket each peer process opens to the handler's server
Home(p) == IF p = "P1" THEN "w1" ELSE "w2"

\* class MessageType(Enum): member name -> value
MessageType ==
  [ REQUEST |-> "request", RESPONSE |-> "response",
    NOTIFICATION |-> "notification", HEARTBEAT |-> "heartbeat",
    DISCOVERY |-> "discovery", ERROR |-> "error", WORKFLOW |-> "workflow" ]

\* MessageType(value): the member with that value
MessageTypeOf(v) == CHOOSE k \in DOMAIN MessageType : MessageType[k] = v

\* class MessagePriority(Enum): member name -> value
MessagePriority ==
  [ LOW |-> "low", MEDIUM |-> "medium", HIGH |-> "high",
    CRITICAL |-> "critical" ]

\* MessagePriority(value): the member with that value
MessagePriorityOf(v) ==
  CHOOSE k \in DOMAIN MessagePriority : MessagePriority[k] = v

\* ---------------------------------------------------------------- helpers
Min(a, b) == IF a <= b THEN a ELSE b

\* {**a, **b}: the keys of both maps, b's value where both have the key
Merge(a, b) ==
  [ k \in (DOMAIN a) \cup (DOMAIN b) |-> IF k \in DOMAIN b THEN b[k] ELSE a[k] ]

\* payload.get("type")
PayloadType(p) == IF "type" \in DOMAIN p THEN p["type"] ELSE NoneType

\* str(x) inside an f-string
Str(x) == IF x = NoneType THEN "None" ELSE x

\* A2AMessage.__init__ ; priority and workflow_id take their defaults unless set
A2AMessage(id, mtype, from, to, payload, corr, ts) ==
  [ id |-> id, message_type |-> mtype, from_agent |-> from, to_agent |-> to,
    payload |-> payload, priority |-> "MEDIUM", correlation_id |-> corr,
    workflow_id |-> NoId, timestamp |-> ts, ttl |-> DefaultTTL ]

\* A2AMessage.to_dict
to_dict(m) ==
  [ id |-> m.id, type |-> MessageType[m.message_type], from |-> m.from_agent,
    to |-> m.to_agent, payload |-> m.payload,
    priority |-> MessagePriority[m.priority],
    correlation_id |-> m.correlation_id, workflow_id |-> m.workflow_id,
    timestamp |-> m.timestamp, ttl |-> m.ttl ]

\* data.get(key, default)
Get(d, key, default) == IF key \in DOMAIN d THEN d[key] ELSE default

\* a from_dict that gives every message the default priority
from_dict_default_priority(d) ==
  [ id |-> d.id, message_type |-> MessageTypeOf(d.type), from_agent |-> d.from,
    to_agent |-> Get(d, "to", NoAgent), payload |-> Get(d, "payload", EmptyMap),
    priority |-> "MEDIUM",
    correlation_id |-> Get(d, "correlation_id", NoId),
    workflow_id |-> Get(d, "workflow_id", NoId),
    timestamp |-> d.timestamp, ttl |-> Get(d, "ttl", DefaultTTL) ]

\* A2AMessage.from_dict, for a dict it does not raise on: "type", "from", "id"
\* and "timestamp" are subscripted, the other keys read with get
from_dict(d) ==
  [ id |-> d.id, message_type |-> MessageTypeOf(d.type), from_agent |-> d.from,
    to_agent |-> Get(d, "to", NoAgent), payload |-> Get(d, "payload", EmptyMap),
    priority |-> MessagePriorityOf(Get(d, "priority", "medium")),
    correlation_id |-> Get(d, "correlation_id", NoId),
    workflow_id |-> Get(d, "workflow_id", NoId),
    timestamp |-> d.timestamp, ttl |-> Get(d, "ttl", DefaultTTL) ]

NoMsg == A2AMessage(NoId, "REQUEST", NoAgent, NoAgent, EmptyMap, NoId, 0)

\* ------------------------------------------------------------------- state
VARIABLES
  running,           \* "init", "started" after start(), "stopped" after stop()
  agents,            \* self.agents: the registry, in dict (insertion) order
  connections,       \* self.connections: <<agent id, websocket>> in dict order
  chan,              \* each websocket: "free", "open", "closed" or "dead"
  message_handlers,  \* self.message_handlers: the registered payload types
  pending_requests,  \* self.pending_requests: the ids that have a future
  calls,             \* the send_request calls: future, position and result
  msgs,              \* the A2AMessage objects the handler has constructed
  message_queue,     \* self.message_queue: references into msgs
  wire,              \* what has been written to each websocket
  stats,             \* self.stats
  proc,              \* the message_processor task: position and held message
  now,               \* datetime.now(), in seconds
  hist,              \* what has been handed to _send_message, and when each
                     \* peer first had an entry in self.connections
  ev,                \* what the last step did: sends, handler calls, raises
  cleanup,           \* the cleanup_loop task: when its sleep is over
  registry,          \* ServiceRegistry: services and capability_index
  active_workflows,  \* WorkflowOrchestrator.active_workflows
  codec,             \* an envelope, its to_dict and what from_dict makes of it
  fanout,            \* the broadcast_notification call: its dict iterator
  coord,             \* the last run of a coordination pattern
  beat,              \* the heartbeat_loop task: its sleep, its one envelope, its dict iterator
  nest,              \* the read loop of the nested peer's websocket: its unread frames, its handler
  handler_workflows  \* A2AProtocolHandler.active_workflows

vars == << running, agents, connections, chan, message_handlers,
           pending_requests, calls, msgs, message_queue, wire, stats, proc,
           now, hist, ev, cleanup, registry, active_workflows, codec, fanout,
           coord,
           beat,
           nest,
           handler_workflows >>

NoEv == [ op |-> "none", msg |-> NoMsg, sent |-> << >>, invoked |-> << >>,
          raised |-> FALSE, call |-> NoId ]

\* nothing has been converted
\* no broadcast_notification call yet
NoFanout == [ pc |-> "idle", keys |-> << >>, i |-> 0 ]

\* no coordination pattern has run
NoCoord == [ pattern |-> "none" ]
\* the read loop at 'async for message in websocket', nothing unread
NoNest == [ pc |-> "idle", inbox |-> << >>, asked |-> 0 ]
\* the heartbeat task asleep; it wakes at once when the handler starts
NoBeat == [ wake |-> 0 ]

\* no envelope under conversion
NoCodec == [ stage |-> "none" ]

\* A2AProtocolHandler.__init__, ServiceRegistry.__init__ and
\* WorkflowOrchestrator.__init__
InitHandler ==
  /\ running = "init"
  /\ agents = << >>
  /\ connections = << >>
  /\ chan = [ w \in Channels |-> "free" ]
  /\ message_handlers = {}
  /\ pending_requests = {}
  /\ calls = << >>
  /\ msgs = << >>
  /\ message_queue = << >>
  /\ wire = [ w \in Channels |-> << >> ]
  /\ stats = [ errors |-> 0 ]
  /\ proc = [ pc |-> "get", held |-> 0, wake |-> 0 ]
  /\ now = 0
  /\ hist = [ handed |-> {}, first_bound |-> [ p \in Peers |-> -1 ] ]
  /\ ev = NoEv
  /\ cleanup = [ wake |-> 0 ]
  /\ registry = [ services |-> << >>, capability_index |-> << >> ]
  /\ active_workflows = << >>
  /\ fanout = NoFanout
  /\ coord = NoCoord
  /\ beat = NoBeat
  /\ nest = NoNest
  /\ handler_workflows = << >>

Init == InitHandler /\ codec = NoCodec

\* ------------------------------------------------------------ connections
Bound == { connections[i][1] : i \in 1..Len(connections) }

\* self.connections[agent]
ConnOf(agent) ==
  LET i == CHOOSE j \in 1..Len(connections) : connections[j][1] = agent
  IN  connections[i][2]


\* The handler's mutable state as one value, so that each method is a function
\* from the state before to the state after.  sent, invoked and exc record
\* what the step did: the envelopes handed to send_message (with the outcome),
\* the handler functions called, and an exception on its way up.
St ==
  [ agents |-> agents, connections |-> connections,
    pending_requests |-> pending_requests, calls |-> calls, msgs |-> msgs,
    wire |-> wire, message_queue |-> message_queue, errors |-> stats.errors,
    sent |-> << >>, invoked |-> << >>, exc |-> FALSE,
    handed |-> hist.handed ]

StBound(st) == { st.connections[i][1] : i \in 1..Len(st.connections) }

StConnOf(st, agent) ==
  LET i == CHOOSE j \in 1..Len(st.connections) : st.connections[j][1] = agent
  IN  st.connections[i][2]

\* one line written to a websocket: json.dumps(message.to_dict())
Written(m, via) == [ data |-> to_dict(m), via |-> via ]

\* the handler's stats dict holds "uptime_start": datetime.now()
DateTime == "<datetime>"

\* json.dumps(message.to_dict()) raises TypeError for a payload that holds a
\* datetime: the payload of the handler's own heartbeat, whose "stats" is
\* self.stats
dumps_raises(m) ==
  /\ "stats" \in DOMAIN m.payload
  /\ m.payload.stats.uptime_start = DateTime

\* json.dumps returns and websocket.send, on a websocket that is not open,
\* raises ConnectionClosed
CanWrite(w) == chan[w] = "open"

\* what _send_message did with the object msgs[o]
Outcome(st, o, how) ==
  [ st EXCEPT !.sent = Append(@, [ msg |-> st.msgs[o], how |-> how ]),
              !.handed = @ \cup { [ obj |-> o, to |-> st.msgs[o].to_agent,
                                    how |-> how ] } ]

\* A2AProtocolHandler._send_message, for the object msgs[o]
send_message(st, o) ==
  LET m == st.msgs[o] IN
  IF m.to_agent \in StBound(st)
  THEN LET w == StConnOf(st, m.to_agent) IN
       IF CanWrite(w) /\ ~dumps_raises(m)
       THEN Outcome([ st EXCEPT !.wire[w] = Append(@, Written(m, "direct")) ],
                    o, "written")
       ELSE Outcome([ st EXCEPT !.errors = @ + 1 ], o, "failed")
  ELSE Outcome([ st EXCEPT !.message_queue = Append(@, o) ], o, "queued")

\* construct an A2AMessage and hand it to _send_message
build_and_send(st, mtype, to, payload, corr) ==
  LET o == Len(st.msgs) + 1
      m == A2AMessage(Uuid(Self, o), mtype, Self, to, payload, corr, now)
  IN  send_message([ st EXCEPT !.msgs = Append(@, m) ], o)

\* the registered handler functions: "echo" returns {"echoed": payload},
\* "boom" raises Exception("boom")
HandlerCall(t, payload) ==
  IF t = "echo"
  THEN [ ok |-> TRUE,  value |-> [ echoed |-> payload ], error |-> "" ]
  ELSE [ ok |-> FALSE, value |-> EmptyMap,               error |-> "boom" ]

\* a request_reply that names no type in the no-handler text
request_reply_no_type(message, handlers) ==
  LET request_type == PayloadType(message.payload) IN
  IF request_type \in handlers
  THEN LET r   == HandlerCall(request_type, message.payload)
           inv == << [ type |-> request_type, payload |-> message.payload ] >>
       IN  IF r.ok
           THEN [ mtype |-> "RESPONSE", invoked |-> inv,
                  payload |-> [ result |-> r.value, status |-> "success" ] ]
           ELSE [ mtype |-> "ERROR", invoked |-> inv,
                  payload |-> [ error |-> r.error, status |-> "error" ] ]
  ELSE [ mtype |-> "ERROR", invoked |-> << >>,
         payload |-> [ error |-> "No handler for request type" ] ]

\* a request_reply that hands the handler the payload without its "type" key
request_reply_strip_type(message, handlers) ==
  LET request_type == PayloadType(message.payload)
      stripped == [ k \in (DOMAIN message.payload) \ {"type"} |->
                      message.payload[k] ]
  IN
  IF request_type \in handlers
  THEN LET r   == HandlerCall(request_type, stripped)
           inv == << [ type |-> request_type, payload |-> stripped ] >>
       IN  IF r.ok
           THEN [ mtype |-> "RESPONSE", invoked |-> inv,
                  payload |-> [ result |-> r.value, status |-> "success" ] ]
           ELSE [ mtype |-> "ERROR", invoked |-> inv,
                  payload |-> [ error |-> r.error, status |-> "error" ] ]
  ELSE [ mtype |-> "ERROR", invoked |-> << >>,
         payload |-> [ error |-> "No handler for request type: "
                                   \o Str(request_type) ] ]

\* The reply _handle_request builds for a Request: its kind, its payload and
\* the handler calls made on the way
request_reply(message, handlers) ==
  LET request_type == PayloadType(message.payload) IN
  IF request_type \in handlers
  THEN LET r   == HandlerCall(request_type, message.payload)
           inv == << [ type |-> request_type, payload |-> message.payload ] >>
       IN  IF r.ok
           THEN [ mtype |-> "RESPONSE", invoked |-> inv,
                  payload |-> [ result |-> r.value, status |-> "success" ] ]
           ELSE [ mtype |-> "ERROR", invoked |-> inv,
                  payload |-> [ error |-> r.error, status |-> "error" ] ]
  ELSE [ mtype |-> "ERROR", invoked |-> << >>,
         payload |-> [ error |-> "No handler for request type: "
                                   \o Str(request_type) ] ]

\* a handle_request without the try/except around the handler call
handle_request_no_except(st, message, handlers) ==
  LET r == request_reply(message, handlers) IN
  IF r.mtype = "ERROR" /\ r.invoked # << >>
  THEN [ st EXCEPT !.invoked = @ \o r.invoked, !.exc = TRUE ]
  ELSE build_and_send([ st EXCEPT !.invoked = @ \o r.invoked ],
                      r.mtype, message.from_agent, r.payload, message.id)

\* A2AProtocolHandler._handle_request
handle_request(st, message, handlers) ==
  LET r == request_reply(message, handlers) IN
  build_and_send([ st EXCEPT !.invoked = @ \o r.invoked ],
                 r.mtype, message.from_agent, r.payload, message.id)

\* AgentInfo.__init__
AgentInfo(agent_id) ==
  [ agent_id |-> agent_id, status |-> "ONLINE", last_heartbeat |-> now ]

\* self.agents[agent_id] = info: a known key keeps its place in the dict
SetAgent(ags, info) ==
  IF \E i \in 1..Len(ags) : ags[i].agent_id = info.agent_id
  THEN [ i \in 1..Len(ags) |->
           IF ags[i].agent_id = info.agent_id THEN info ELSE ags[i] ]
  ELSE Append(ags, info)

\* list(self.agents.keys())
AgentKeys(ags) == [ i \in 1..Len(ags) |-> ags[i].agent_id ]

\* a _handle_discovery that adds an entry for each register it gets
handle_discovery_appends(st, message) ==
  LET action == IF "action" \in DOMAIN message.payload
                THEN message.payload["action"] ELSE NoneType
  IN  IF action = "register"
      THEN LET st1 == [ st EXCEPT !.agents =
                          Append(@, AgentInfo(message.from_agent)) ]
           IN  build_and_send(st1, "RESPONSE", message.from_agent,
                              [ status |-> "registered",
                                agents |-> AgentKeys(st1.agents) ],
                              message.id)
      ELSE st

\* A2AProtocolHandler._handle_discovery
handle_discovery(st, message) ==
  LET action == IF "action" \in DOMAIN message.payload
                THEN message.payload["action"] ELSE NoneType
  IN  IF action = "register"
      THEN LET st1 == [ st EXCEPT !.agents =
                          SetAgent(@, AgentInfo(message.from_agent)) ]
           IN  build_and_send(st1, "RESPONSE", message.from_agent,
                              [ status |-> "registered",
                                agents |-> AgentKeys(st1.agents) ],
                              message.id)
      ELSE IF action = "query"
      THEN build_and_send(st, "RESPONSE", message.from_agent,
                          [ agents |-> st.agents ], message.id)
      ELSE st

\* future.set_result(message) on the future of call c
set_result(st, c, message) ==
  [ st EXCEPT !.calls[c].fut = "done", !.calls[c].result = message ]

\* a handle_response that correlates by the answering agent, not by the id
handle_response_by_agent(st, message) ==
  LET cand == { c \in st.pending_requests :
                  st.calls[c].to = message.from_agent }
  IN  IF cand # {}
      THEN LET c == CHOOSE x \in cand : \A y \in cand : x[2] <= y[2]
               st1 == [ st EXCEPT !.pending_requests = @ \ {c} ]
           IN  IF st.calls[c].fut = "pending" THEN set_result(st1, c, message)
                                              ELSE st1
      ELSE st

\* a handle_response that pops without looking: KeyError for an unknown id
handle_response_unchecked(st, message) ==
  IF message.correlation_id \in st.pending_requests
  THEN LET c   == message.correlation_id
           st1 == [ st EXCEPT !.pending_requests = @ \ {c} ]
       IN  IF st.calls[c].fut = "pending" THEN set_result(st1, c, message)
                                          ELSE st1
  ELSE [ st EXCEPT !.exc = TRUE ]

\* A2AProtocolHandler._handle_response
handle_response(st, message) ==
  IF message.correlation_id \in st.pending_requests
  THEN LET c   == message.correlation_id
           st1 == [ st EXCEPT !.pending_requests = @ \ {c} ]
       IN  IF st.calls[c].fut = "pending" THEN set_result(st1, c, message)
                                          ELSE st1
  ELSE st

\* a _handle_heartbeat that refreshes the time and leaves the status
handle_heartbeat_keeps_status(st, message) ==
  [ st EXCEPT !.agents =
      [ i \in 1..Len(@) |->
          IF @[i].agent_id = message.from_agent
          THEN [ @[i] EXCEPT !.last_heartbeat = now ]
          ELSE @[i] ] ]

\* a _handle_heartbeat that makes an entry for a sender it does not know
handle_heartbeat_upserts(st, message) ==
  [ st EXCEPT !.agents = SetAgent(@, AgentInfo(message.from_agent)) ]

\* A2AProtocolHandler._handle_heartbeat
handle_heartbeat(st, message) ==
  [ st EXCEPT !.agents =
      [ i \in 1..Len(@) |->
          IF @[i].agent_id = message.from_agent
          THEN [ @[i] EXCEPT !.last_heartbeat = now, !.status = "ONLINE" ]
          ELSE @[i] ] ]

\* a handle_notification that answers a failed handler with an Error envelope
handle_notification_replies(st, message, handlers) ==
  LET t == PayloadType(message.payload) IN
  IF t \in handlers
  THEN LET r  == HandlerCall(t, message.payload)
           s1 == [ st EXCEPT !.invoked =
                     Append(@, [ type |-> t, payload |-> message.payload ]) ]
       IN  IF r.ok THEN s1
           ELSE build_and_send(s1, "ERROR", message.from_agent,
                               [ error |-> r.error, status |-> "error" ],
                               message.id)
  ELSE st

\* A2AProtocolHandler._handle_notification: the handler registered for the
\* payload's type is called; what it returns is dropped and what it raises is
\* logged
handle_notification(st, message, handlers) ==
  LET t == PayloadType(message.payload) IN
  IF t \in handlers
  THEN [ st EXCEPT !.invoked =
           Append(@, [ type |-> t, payload |-> message.payload ]) ]
  ELSE st

\* A2AProtocolHandler._process_incoming_message: the dispatch on the kind; an
\* exception of a branch is caught, logged and counted
process_incoming_message(st, message) ==
  LET r == CASE message.message_type = "DISCOVERY" -> handle_discovery(st, message)
             [] message.message_type = "HEARTBEAT" -> handle_heartbeat(st, message)
             [] message.message_type = "REQUEST"   ->
                  handle_request(st, message, message_handlers)
             [] message.message_type = "RESPONSE"  -> handle_response(st, message)
             [] message.message_type = "NOTIFICATION" ->
                  handle_notification(st, message, message_handlers)
             [] OTHER -> st     \* an Error envelope has no branch: it ends in
                                \* logger.warning("Unknown message type"); a
                                \* Workflow envelope changes the workflow
                                \* table only (handle_workflow)
  IN  IF r.exc THEN [ r EXCEPT !.errors = @ + 1, !.exc = FALSE ] ELSE r


\* ------------------------------------------------------------------ actions
\* the state after a step, taken from the value a method returned
Apply(r, op, message, call) ==
  /\ agents' = r.agents
  /\ connections' = r.connections
  /\ pending_requests' = r.pending_requests
  /\ calls' = r.calls
  /\ msgs' = r.msgs
  /\ wire' = r.wire
  /\ message_queue' = r.message_queue
  /\ stats' = [ stats EXCEPT !.errors = r.errors ]
  /\ hist' = [ handed |-> r.handed,
                first_bound |->
                  [ p \in Peers |->
                      IF hist.first_bound[p] = -1 /\ p \in StBound(r)
                      THEN now ELSE hist.first_bound[p] ] ]
  /\ ev' = [ op |-> op, msg |-> message, sent |-> r.sent,
             invoked |-> r.invoked, raised |-> r.exc, call |-> call ]

\* A2AProtocolHandler.start: _register_agent adds the handler to its registry
\* (the registration message it builds is never sent)
Start ==
  /\ running = "init"
  /\ running' = "started"
  /\ agents' = SetAgent(agents, AgentInfo(Self))
  /\ ev' = [ NoEv EXCEPT !.op = "start" ]
  /\ UNCHANGED << handler_workflows, nest, beat, coord, cleanup, registry, active_workflows, codec, fanout,
               connections, chan, message_handlers, pending_requests, calls,
                  msgs, message_queue, wire, stats, proc, now, hist >>

\* A2AProtocolHandler.register_handler
register_handler(t) ==
  /\ t \notin message_handlers
  /\ message_handlers' = message_handlers \cup {t}
  /\ ev' = [ NoEv EXCEPT !.op = "register_handler" ]
  /\ UNCHANGED << handler_workflows, nest, beat, coord, cleanup, registry, active_workflows, codec, fanout,
               running, agents, connections, chan, pending_requests, calls,
                  msgs, message_queue, wire, stats, proc, now, hist >>

\* websockets.serve accepts a connection: _handle_connection starts on it
Accept(w) ==
  /\ running = "started"
  /\ chan[w] = "free"
  /\ chan' = [ chan EXCEPT ![w] = "open" ]
  /\ ev' = [ NoEv EXCEPT !.op = "accept" ]
  /\ UNCHANGED << handler_workflows, nest, beat, coord, cleanup, registry, active_workflows, codec, fanout,
               running, agents, connections, message_handlers,
                  pending_requests, calls, msgs, message_queue, wire, stats,
                  proc, now, hist >>

\* the peer closes the websocket; _handle_connection has not yet noticed
Close(w) ==
  /\ chan[w] = "open"
  /\ chan' = [ chan EXCEPT ![w] = "closed" ]
  /\ ev' = [ NoEv EXCEPT !.op = "close" ]
  /\ UNCHANGED << handler_workflows, nest, beat, coord, cleanup, registry, active_workflows, codec, fanout,
               running, agents, connections, message_handlers,
                  pending_requests, calls, msgs, message_queue, wire, stats,
                  proc, now, hist >>

\* the finally of _handle_connection: the first entry of self.connections
\* that holds this websocket is deleted, and the loop breaks
RemoveFirst(conns, w) ==
  IF \E i \in 1..Len(conns) : conns[i][2] = w
  THEN LET k == CHOOSE i \in 1..Len(conns) :
                  /\ conns[i][2] = w
                  /\ \A j \in 1..(i-1) : conns[j][2] # w
       IN  SubSeq(conns, 1, k-1) \o SubSeq(conns, k+1, Len(conns))
  ELSE conns

ConnFinally(w) ==
  /\ chan[w] = "closed"
  /\ connections' = RemoveFirst(connections, w)
  /\ chan' = [ chan EXCEPT ![w] =
                 IF \E i \in 1..Len(connections') : connections'[i][2] = w
                 THEN "dead" ELSE "free" ]
  /\ ev' = [ NoEv EXCEPT !.op = "finally" ]
  /\ UNCHANGED << handler_workflows, nest, beat, coord, cleanup, registry, active_workflows, codec, fanout,
               running, agents, message_handlers, pending_requests, calls,
                  msgs, message_queue, wire, stats, proc, now, hist >>

\* A2AProtocolHandler.send_request up to its wait: the Request is built, its
\* future stored under the message id, and the message handed to _send_message
send_request(st, to_agent, request_type, payload) ==
  LET o  == Len(st.msgs) + 1
      id == Uuid(Self, o)
      st1 == [ st EXCEPT
                 !.pending_requests = @ \cup {id},
                 !.calls = @ @@ (id :> [ to |-> to_agent, type |-> request_type,
                                         payload |-> payload, fut |-> "pending",
                                         result |-> NoMsg, pc |-> "waiting" ]) ]
  IN  build_and_send(st1, "REQUEST", to_agent,
                     Merge([ type |-> request_type ], payload), NoId)

SendRequest(to_agent, request_type, payload) ==
  /\ Len(msgs) < MaxMsgs
  /\ Cardinality(DOMAIN calls) < MaxCalls
  /\ Apply(send_request(St, to_agent, request_type, payload), "send_request",
           NoMsg, Uuid(Self, Len(msgs) + 1))
  /\ UNCHANGED << handler_workflows, nest, beat, coord, cleanup, registry, active_workflows, codec, fanout,
               running, chan, message_handlers, proc, now >>

\* asyncio.wait_for(future, timeout) returns: the future has a result
wait_returns(st, c) == [ st EXCEPT !.calls[c].pc = "returned" ]

Return(c) ==
  /\ calls[c].pc = "waiting"
  /\ calls[c].fut = "done"
  /\ Apply(wait_returns(St, c), "return", calls[c].result, c)
  /\ UNCHANGED << handler_workflows, nest, beat, coord, cleanup, registry, active_workflows, codec, fanout,
               running, chan, message_handlers, proc, now >>

\* a timeout path that re-raises without the pop
wait_times_out_no_pop(st, c) ==
  [ st EXCEPT !.calls[c].fut = "cancelled", !.calls[c].pc = "timeout",
              !.exc = TRUE ]

\* asyncio.wait_for times out: it cancels the future and raises TimeoutError;
\* send_request pops the pending entry and re-raises
wait_times_out(st, c) ==
  [ st EXCEPT !.calls[c].fut = "cancelled", !.calls[c].pc = "timeout",
              !.pending_requests = @ \ {c}, !.exc = TRUE ]

Timeout(c) ==
  /\ calls[c].pc = "waiting"
  /\ calls[c].fut = "pending"
  /\ Apply(wait_times_out(St, c), "timeout", NoMsg, c)
  /\ UNCHANGED << handler_workflows, nest, beat, coord, cleanup, registry, active_workflows, codec, fanout,
               running, chan, message_handlers, proc, now >>


\* ------------------------------------------------------ receiving envelopes
\* the body of _handle_connection's loop for one message read from websocket w:
\* parse, bind the sender to the websocket if it has no entry, dispatch
handle_connection(st, w, d) ==
  LET message == from_dict(d)
      st1 == IF message.from_agent \in StBound(st) THEN st
             ELSE [ st EXCEPT !.connections =
                      Append(@, << message.from_agent, w >>) ]
  IN  process_incoming_message(st1, message)

Receive(w, d) ==
  /\ running = "started"
  /\ chan[w] = "open"
  /\ Len(handle_connection(St, w, d).msgs) <= MaxMsgs
  /\ Apply(handle_connection(St, w, d), "receive", from_dict(d), NoId)
  /\ UNCHANGED << handler_workflows, nest, beat, coord, cleanup, registry, active_workflows, codec, fanout,
               running, chan, message_handlers, proc, now >>

\* an envelope as a peer serialises it; n is the serial of its uuid
PeerDict(p, n, type, payload, corr) ==
  [ id |-> Uuid(p, n), type |-> type, from |-> p, to |-> Self,
    payload |-> payload, priority |-> "medium", correlation_id |-> corr,
    workflow_id |-> NoId, timestamp |-> now, ttl |-> DefaultTTL ]

\* a serial no earlier Request or Discovery message of a peer had: each of
\* them made the handler construct one reply
FreshSerial == Len(msgs) + 1

PeerHeartbeat(w, p) ==
  Receive(w, PeerDict(p, 0, "heartbeat", [ status |-> "online" ], NoId))

PeerRegister(w, p) ==
  Receive(w, PeerDict(p, FreshSerial, "discovery", [ action |-> "register" ],
                      NoId))

\* a Request of a registered or unregistered type, or without a type
PeerRequest(w, p, t) ==
  Receive(w, PeerDict(p, FreshSerial, "request",
                      IF t = NoneType THEN [ msg |-> "hi" ]
                      ELSE [ type |-> t, msg |-> "hi" ], NoId))

\* a Notification as a peer's send_notification builds it
PeerNotification(w, p, t) ==
  Receive(w, [ PeerDict(p, 0, "notification",
                        IF t = NoneType THEN [ msg |-> "hi" ]
                        ELSE [ type |-> t, msg |-> "hi" ], NoId)
               EXCEPT !.priority = "low" ])

\* the requests the handler has written to some websocket
WrittenRequests ==
  { d \in UNION { { wire[w][i].data : i \in 1..Len(wire[w]) } : w \in Channels } :
      d.type = "request" }

\* the peer that got Request d answers it as _handle_request does, with the
\* handlers PeerHandlers; the answer may come late, or more than once
PeerReply(w, d) ==
  LET message == from_dict(d)
      r == request_reply(message, PeerHandlers)
  IN  Receive(w, PeerDict(message.to_agent, message.id[2],
                          MessageType[r.mtype], r.payload, message.id))

\* a Response or an Error that answers no request of the handler
PeerOrphan(w, p, type, corr) ==
  Receive(w, PeerDict(p, 0, type, [ status |-> "success" ], corr))

\* The handler as a caller: send_request, its wait, and what comes back
NextRequest ==
  \/ Start
  \/ \E w \in Channels : Accept(w)
  \/ \E w \in Channels : Close(w)
  \/ \E to \in Peers, a \in CallArgs : SendRequest(to, a[1], a[2])
  \/ \E c \in DOMAIN calls : Return(c)
  \/ \E c \in DOMAIN calls : Timeout(c)
  \/ \E p \in Peers : PeerHeartbeat(Home(p), p)
  \/ \E d \in WrittenRequests : PeerReply(Home(d.to), d)
  \/ \E p \in Peers, corr \in {BogusId, NoId} :
       PeerOrphan(Home(p), p, "response", corr)

SpecRequest == Init /\ [][NextRequest]_vars

\* The handler as a server: the dispatch of what peers send it
NextDispatch ==
  \/ Start
  \/ \E t \in HandlerTypes : register_handler(t)
  \/ \E w \in Channels : Accept(w)
  \/ \E p \in Peers : PeerHeartbeat(Home(p), p)
  \/ \E p \in Peers : PeerRegister(Home(p), p)
  \/ \E p \in Peers, t \in RequestTypes \cup {NoneType} :
       PeerRequest(Home(p), p, t)

SpecDispatch == Init /\ [][NextDispatch]_vars

\* The handler as a receiver of Notifications, with and without handlers
NextNotify ==
  \/ Start
  \/ \E t \in HandlerTypes : register_handler(t)
  \/ \E w \in Channels : Accept(w)
  \/ \E p \in Peers, t \in RequestTypes \cup {NoneType} :
       PeerNotification(Home(p), p, t)

SpecNotify == Init /\ [][NextNotify]_vars

\* ------------------------------------------------------- the delivery queue
\* A2AProtocolHandler.send_notification
send_notification(st, to_agent, notification_type, payload) ==
  LET o == Len(st.msgs) + 1
      m == [ A2AMessage(Uuid(Self, o), "NOTIFICATION", Self, to_agent,
                        Merge([ type |-> notification_type ], payload),
                        NoId, now)
             EXCEPT !.priority = "LOW" ]
  IN  send_message([ st EXCEPT !.msgs = Append(@, m) ], o)

SendNotification(to_agent) ==
  /\ running = "started"
  /\ Len(msgs) < MaxMsgs
  /\ Cardinality({ o \in 1..Len(msgs) :
                     msgs[o].message_type = "NOTIFICATION" }) < MaxNotes
  /\ Apply(send_notification(St, to_agent, "note", [ msg |-> "hi" ]),
           "send_notification", NoMsg, NoId)
  /\ UNCHANGED << handler_workflows, nest, beat, coord, cleanup, registry, active_workflows, codec, fanout,
               running, chan, message_handlers, proc, now >>

\* the background tasks exist from start() on
TasksAlive == running # "init"

\* datetime.now() - message_time > timedelta(seconds=message.ttl)
Expired(m) == now - m.timestamp > m.ttl

\* a loop body without the try/except around it: a write that raises ends
\* the task
message_processor_uncaught(st, o) ==
  LET m == st.msgs[o] IN
  IF m.to_agent \in StBound(st)
  THEN LET w == StConnOf(st, m.to_agent) IN
       IF CanWrite(w) /\ ~dumps_raises(m)
       THEN [ st |-> [ st EXCEPT !.wire[w] = Append(@, Written(m, "queue")) ],
              pc |-> "get", held |-> 0, did |-> "written" ]
       ELSE [ st |-> st, pc |-> "dead", held |-> 0, did |-> "failed" ]
  ELSE IF Expired(m)
       THEN [ st |-> st, pc |-> "get", held |-> 0, did |-> "expired" ]
       ELSE [ st |-> st, pc |-> "sleep", held |-> o, did |-> "requeue" ]

\* One pass of _message_processor's loop body after queue.get() returned the
\* object msgs[o]: what happens to the state, and where the task goes next.
\* A write that raises is caught by the loop's except, which logs and sleeps;
\* the message is not put back.
message_processor(st, o) ==
  LET m == st.msgs[o] IN
  IF m.to_agent \in StBound(st)
  THEN LET w == StConnOf(st, m.to_agent) IN
       IF CanWrite(w) /\ ~dumps_raises(m)
       THEN [ st |-> [ st EXCEPT !.wire[w] = Append(@, Written(m, "queue")) ],
              pc |-> "get", held |-> 0, did |-> "written" ]
       ELSE [ st |-> st, pc |-> "errsleep", held |-> 0, did |-> "failed" ]
  ELSE IF Expired(m)
       THEN [ st |-> st, pc |-> "get", held |-> 0, did |-> "expired" ]
       ELSE [ st |-> st, pc |-> "sleep", held |-> o, did |-> "requeue" ]

\* message = await self.message_queue.get(), and the body up to its next await
ProcGet ==
  /\ TasksAlive
  /\ proc.pc = "get"
  /\ message_queue # << >>
  /\ LET o == Head(message_queue)
         r == message_processor([ St EXCEPT !.message_queue = Tail(@) ], o)
     IN  /\ Apply(r.st, "proc_" \o r.did, msgs[o], NoId)
         /\ proc' = [ pc |-> r.pc, held |-> r.held,
                      wake |-> IF r.pc = "get" THEN 0
                               ELSE IF r.pc = "sleep" THEN now + RequeueDelay
                               ELSE now + ErrorDelay ]
  /\ UNCHANGED << handler_workflows, nest, beat, coord, cleanup, registry, active_workflows, codec, fanout,
               running, chan, message_handlers, now >>

\* asyncio.sleep(d) returns no earlier than d seconds after the call; the
\* clock stops at its horizon, where a sleeper is let through
SleepOver == now >= Min(proc.wake, MaxTime)

\* the sleep before the re-queue is over: await self.message_queue.put(message)
ProcWake ==
  /\ proc.pc = "sleep"
  /\ SleepOver
  /\ message_queue' = Append(message_queue, proc.held)
  /\ proc' = [ pc |-> "get", held |-> 0, wake |-> 0 ]
  /\ ev' = [ NoEv EXCEPT !.op = "proc_put", !.msg = msgs[proc.held] ]
  /\ UNCHANGED << handler_workflows, nest, beat, coord, cleanup, registry, active_workflows, codec, fanout,
               running, agents, connections, chan, message_handlers,
                  pending_requests, calls, msgs, wire, stats, now, hist >>

\* the sleep of the except branch is over: back to the top of the loop
ProcErrWake ==
  /\ proc.pc = "errsleep"
  /\ SleepOver
  /\ proc' = [ pc |-> "get", held |-> 0, wake |-> 0 ]
  /\ ev' = [ NoEv EXCEPT !.op = "proc_resume" ]
  /\ UNCHANGED << handler_workflows, nest, beat, coord, cleanup, registry, active_workflows, codec, fanout,
               running, agents, connections, chan, message_handlers,
                  pending_requests, calls, msgs, message_queue, wire, stats,
                  now, hist >>

\* the instants of the clock that are told apart: the start, and the seconds
\* from the default ttl to the horizon
Instants == { t \in 0..MaxTime : t = 0 \/ t >= DefaultTTL }

\* the processor task can run: a ready task runs before the clock moves on
ProcReady ==
  \/ TasksAlive /\ proc.pc = "get" /\ message_queue # << >>
  \/ proc.pc \in {"sleep", "errsleep"} /\ SleepOver

\* time passes, to a later instant
Tick(t) ==
  /\ ~ProcReady
  /\ t > now
  /\ now' = t
  /\ ev' = [ NoEv EXCEPT !.op = "tick" ]
  /\ UNCHANGED << handler_workflows, nest, beat, coord, cleanup, registry, active_workflows, codec, fanout,
               running, agents, connections, chan, message_handlers,
                  pending_requests, calls, msgs, message_queue, wire, stats,
                  proc, hist >>

ProcStep == ProcGet \/ ProcWake \/ ProcErrWake

TickOn == \E t \in Instants : Tick(t)

\* The handler as a sender to peers that come and go: notifications, the
\* delivery queue and its processor, and the clock
NextDelivery ==
  \/ Start
  \/ \E w \in Channels : Accept(w)
  \/ \E w \in Channels : Close(w)
  \/ \E w \in Channels : ConnFinally(w)
  \/ \E p \in Peers : PeerHeartbeat(Home(p), p)
  \/ \E p \in Peers : SendNotification(p)
  \/ ProcGet
  \/ ProcWake
  \/ ProcErrWake
  \/ TickOn

SpecDelivery == Init /\ [][NextDelivery]_vars

\* the processor task is scheduled whenever it can run, and time passes
FairDelivery ==
  /\ SpecDelivery
  /\ WF_vars(ProcStep)
  /\ WF_vars(TickOn)

\* ------------------------------------------------------- the cleanup loop
\* current_time - agent_info.last_heartbeat
Age(info) == now - info.last_heartbeat

\* the agents a pass marks offline: not self, silent for more than the timeout
OfflineAgents(ags) ==
  { ags[i].agent_id : i \in { j \in 1..Len(ags) :
      ags[j].agent_id # Self /\ Age(ags[j]) > A2ATimeout } }

\* of those, the agents a pass removes: silent for more than 3 x timeout
RemovedAgents(ags) ==
  { ags[i].agent_id : i \in { j \in 1..Len(ags) :
      ags[j].agent_id # Self /\ Age(ags[j]) > A2ATimeout * 3 } }

\* the entries of a dict (a sequence in insertion order) whose key is kept
Keep(seq, Kept(_)) ==
  LET F[i \in 0..Len(seq)] ==
        IF i = 0 THEN << >>
        ELSE IF Kept(seq[i]) THEN Append(F[i-1], seq[i]) ELSE F[i-1]
  IN  F[Len(seq)]

\* a pass that marks silent agents offline and never removes one
cleanup_pass_no_removal(st) ==
  [ st EXCEPT
      !.agents = [ i \in 1..Len(@) |->
                     IF @[i].agent_id \in OfflineAgents(st.agents)
                     THEN [ @[i] EXCEPT !.status = "OFFLINE" ] ELSE @[i] ] ]

\* a pass that deletes from self.agents and leaves self.connections alone
cleanup_pass_keeps_connection(st) ==
  LET marked == [ i \in 1..Len(st.agents) |->
                    IF st.agents[i].agent_id \in OfflineAgents(st.agents)
                    THEN [ st.agents[i] EXCEPT !.status = "OFFLINE" ]
                    ELSE st.agents[i] ]
      gone == RemovedAgents(st.agents)
      KeptAgent(a) == a.agent_id \notin gone
  IN  [ st EXCEPT
          !.agents = Keep(marked, KeptAgent),
          !.pending_requests =
             { c \in @ : st.calls[c].fut = "pending" } ]

\* One pass of _cleanup_loop's body, up to its sleep: silent agents are marked
\* offline; those silent for 3 x timeout are deleted from self.agents and
\* self.connections; pending requests whose future is done are deleted
cleanup_pass(st) ==
  LET marked == [ i \in 1..Len(st.agents) |->
                    IF st.agents[i].agent_id \in OfflineAgents(st.agents)
                    THEN [ st.agents[i] EXCEPT !.status = "OFFLINE" ]
                    ELSE st.agents[i] ]
      gone == RemovedAgents(st.agents)
      KeptAgent(a) == a.agent_id \notin gone
      KeptConn(c) == c[1] \notin gone
  IN  [ st EXCEPT
          !.agents = Keep(marked, KeptAgent),
          !.connections = Keep(@, KeptConn),
          !.pending_requests =
             { c \in @ : st.calls[c].fut = "pending" } ]

\* the sleep of the cleanup loop is over (at once after start); the clock
\* stops at its horizon, where a sleeper is let through
CleanupDue == now >= Min(cleanup.wake, MaxTime)

CleanupPass ==
  /\ TasksAlive
  /\ CleanupDue
  /\ Apply(cleanup_pass(St), "cleanup", NoMsg, NoId)
  /\ cleanup' = [ wake |-> now + CleanupInterval ]
  /\ UNCHANGED << handler_workflows, nest, beat, coord, registry, active_workflows, codec, fanout, running, chan,
                  message_handlers, proc, now >>

\* the instants of the clock told apart where the registry ages; between them
\* lie the ages 30 (not more than the timeout), 90 (more than the timeout, not
\* more than 3 x timeout) and 120 and above (more than 3 x timeout)
RegistryInstants == { 0, A2ATimeout, A2ATimeout * 4, MaxTime }

TickRegistry == \E t \in RegistryInstants : Tick(t)

\* The registry of peers: registration, heartbeats, ageing and the cleanup loop
NextRegistry ==
  \/ Start
  \/ \E w \in Channels : Accept(w)
  \/ \E p \in Peers : PeerRegister(Home(p), p)
  \/ \E p \in Peers : PeerHeartbeat(Home(p), p)
  \/ \E p \in Peers : PeerNotification(Home(p), p, "note")
  \/ CleanupPass
  \/ TickRegistry

SpecRegistry == Init /\ [][NextRegistry]_vars

\* a peer registers when the handler's registry does not hold it
PeerJoin(w, p) ==
  /\ \A i \in 1..Len(agents) : agents[i].agent_id # p
  /\ PeerRegister(w, p)

\* The cleanup loop and peers that join, send heartbeats and fall silent
NextCleanup ==
  \/ Start
  \/ \E w \in Channels : Accept(w)
  \/ \E p \in Peers : PeerJoin(Home(p), p)
  \/ \E p \in Peers : PeerHeartbeat(Home(p), p)
  \/ CleanupPass
  \/ TickRegistry

SpecCleanup == Init /\ [][NextCleanup]_vars

\* the cleanup task is scheduled when its sleep is over, and time passes
FairCleanup ==
  /\ SpecCleanup
  /\ WF_vars(CleanupPass)
  /\ WF_vars(TickRegistry)

\* A2AProtocolHandler.stop: the (never filled) client_connections are closed
\* and the listening server is closed; the three tasks start() created are
\* neither kept nor cancelled
Stop ==
  /\ running = "started"
  /\ running' = "stopped"
  /\ ev' = [ NoEv EXCEPT !.op = "stop" ]
  /\ UNCHANGED << handler_workflows, nest, beat, coord, cleanup, registry, active_workflows, codec, fanout,
                  agents, connections, chan, message_handlers,
                  pending_requests, calls, msgs, message_queue, wire, stats,
                  proc, now, hist >>

\* A handler that is started and stopped while its cleanup task goes on
NextShutdown ==
  \/ Start
  \/ Stop
  \/ \E w \in Channels : Accept(w)
  \/ \E p \in Peers : PeerJoin(Home(p), p)
  \/ CleanupPass
  \/ TickRegistry

SpecShutdown == Init /\ [][NextShutdown]_vars

\* ------------------------------------------------------- malformed frames
\* the values of an Enum
Values(enum) == { enum[k] : k \in DOMAIN enum }

\* the exception A2AMessage.from_dict raises on a dict, as str(e), in the
\* order its arguments are evaluated; NoneType when it raises nothing
from_dict_error(d) ==
  IF "type" \notin DOMAIN d THEN "'type'"
  ELSE IF d.type \notin Values(MessageType)
  THEN "'" \o d.type \o "' is not a valid MessageType"
  ELSE IF "from" \notin DOMAIN d THEN "'from'"
  ELSE IF Get(d, "priority", "medium") \notin Values(MessagePriority)
  THEN "'" \o d.priority \o "' is not a valid MessagePriority"
  ELSE IF "id" \notin DOMAIN d THEN "'id'"
  ELSE IF "timestamp" \notin DOMAIN d THEN "'timestamp'"
  ELSE NoneType

\* A2AProtocolHandler._send_error: an Error envelope without addressee is
\* built and written to the websocket itself; a failing write is swallowed
send_error(st, w, error_message) ==
  LET o == Len(st.msgs) + 1
      m == A2AMessage(Uuid(Self, o), "ERROR", Self, NoAgent,
                      [ error |-> error_message ], NoId, now)
      st1 == [ st EXCEPT !.msgs = Append(@, m) ]
  IN  IF CanWrite(w)
      THEN [ st1 EXCEPT !.wire[w] = Append(@, Written(m, "error")) ]
      ELSE st1

\* a text frame: not JSON at all, a JSON array, or a JSON object
BadText  == [ kind |-> "text" ]
BadArray == [ kind |-> "array" ]
Object(d) == [ kind |-> "object", data |-> d ]

\* a loop body that drops a frame it cannot parse without an answer
read_frame_drops(st, w, frame) ==
  IF frame.kind = "object" /\ from_dict_error(frame.data) = NoneType
  THEN handle_connection(st, w, frame.data)
  ELSE st

\* the body of _handle_connection's loop for one frame: json.loads, from_dict,
\* binding and dispatch, with the two except branches
read_frame(st, w, frame) ==
  IF frame.kind = "text" THEN send_error(st, w, "Invalid JSON format")
  ELSE IF frame.kind = "array"
  THEN send_error(st, w, "list indices must be integers or slices, not str")
  ELSE IF from_dict_error(frame.data) # NoneType
  THEN send_error(st, w, from_dict_error(frame.data))
  ELSE handle_connection(st, w, frame.data)

\* the frame was not turned into an envelope
Malformed(frame) ==
  frame.kind # "object" \/ from_dict_error(frame.data) # NoneType

ReceiveFrame(w, frame) ==
  /\ running = "started"
  /\ chan[w] = "open"
  /\ Len(read_frame(St, w, frame).msgs) <= MaxMsgs
  /\ Apply(read_frame(St, w, frame),
           IF Malformed(frame) THEN "malformed" ELSE "receive",
           IF Malformed(frame) THEN NoMsg ELSE from_dict(frame.data), NoId)
  /\ UNCHANGED << handler_workflows, nest, beat, coord, cleanup, registry, active_workflows, codec, fanout,
                  running, chan, message_handlers, proc, now >>

\* the dict d without the key k
Drop(d, k) == [ x \in (DOMAIN d) \ {k} |-> d[x] ]

\* what a peer may send that is no envelope: frames that are not JSON objects,
\* a heartbeat without one of the subscripted keys, and envelopes with a type
\* or a priority that no enum member has
BadFrames(p) ==
  LET d == PeerDict(p, 0, "heartbeat", [ status |-> "online" ], NoId) IN
  { BadText, BadArray }
    \cup { Object(Drop(d, k)) : k \in {"type", "from", "id", "timestamp"} }
    \cup { Object([ d EXCEPT !.type = "gossip" ]),
           Object([ d EXCEPT !.priority = "urgent" ]),
           Object([ PeerDict(p, FreshSerial, "discovery",
                             [ action |-> "register" ], NoId)
                    EXCEPT !.priority = "urgent" ]) }

\* envelopes that leave out the keys from_dict reads with get
SparseFrames(p) ==
  { Object([ id |-> Uuid(p, 0), type |-> "heartbeat", from |-> p,
             timestamp |-> now ]),
    Object([ id |-> Uuid(p, FreshSerial), type |-> "discovery", from |-> p,
             payload |-> [ action |-> "register" ], timestamp |-> now ]) }

\* the peer whose process sends such frames
FrameSender == "P1"

PeerFrame(w, p) ==
  \E frame \in BadFrames(p) \cup SparseFrames(p) : ReceiveFrame(w, frame)

\* Peers that send envelopes and frames that are none
NextMalformed ==
  \/ Start
  \/ \E w \in Channels : Accept(w)
  \/ \E p \in Peers : PeerRegister(Home(p), p)
  \/ PeerFrame(Home(FrameSender), FrameSender)

SpecMalformed == Init /\ [][NextMalformed]_vars

\* ------------------------------------------------- broadcast_notification
\* the loop of broadcast_notification from the i-th key of the iterated dict
\* on: self is skipped, every other key gets send_notification; a write to a
\* websocket is an await that lets other tasks run before the next key
RECURSIVE fan_out(_, _, _)
fan_out(st, keys, i) ==
  IF i >= Len(keys) THEN [ st |-> st, pc |-> "done", i |-> i ]
  ELSE IF keys[i + 1] = Self THEN fan_out(st, keys, i + 1)
  ELSE LET st1 == send_notification(st, keys[i + 1], "note", [ msg |-> "hi" ])
       IN  IF st1.sent[Len(st1.sent)].how = "written"
           THEN [ st |-> st1, pc |-> "suspended", i |-> i + 1 ]
           ELSE fan_out(st1, keys, i + 1)

\* A2AProtocolHandler.broadcast_notification is called: for agent_id in
\* self.agents, up to the first await that suspends
Broadcast ==
  /\ running = "started"
  /\ fanout.pc = "idle"
  /\ LET r == fan_out(St, AgentKeys(agents), 0)
     IN  /\ Len(r.st.msgs) <= MaxMsgs
         /\ Apply(r.st, "broadcast", NoMsg, NoId)
         /\ fanout' = [ pc |-> r.pc, keys |-> AgentKeys(agents), i |-> r.i ]
  /\ UNCHANGED << handler_workflows, nest, beat, coord, cleanup, registry, active_workflows, codec,
                  running, chan, message_handlers, proc, now >>

\* the write is over and the loop asks the dict iterator for the next key:
\* RuntimeError if self.agents changed size meanwhile (a dict whose keys
\* changed at equal size is taken for changed as well), which nothing in
\* broadcast_notification catches
BroadcastResume ==
  /\ fanout.pc = "suspended"
  /\ IF AgentKeys(agents) # fanout.keys
     THEN /\ fanout' = [ fanout EXCEPT !.pc = "raised" ]
          /\ Apply([ St EXCEPT !.exc = TRUE ], "broadcast", NoMsg, NoId)
     ELSE LET r == fan_out(St, fanout.keys, fanout.i)
          IN  /\ Len(r.st.msgs) <= MaxMsgs
              /\ Apply(r.st, "broadcast", NoMsg, NoId)
              /\ fanout' = [ fanout EXCEPT !.pc = r.pc, !.i = r.i ]
  /\ UNCHANGED << handler_workflows, nest, beat, coord, cleanup, registry, active_workflows, codec,
                  running, chan, message_handlers, proc, now >>

\* A broadcast while peers join, age and are evicted
NextBroadcast ==
  \/ Start
  \/ \E w \in Channels : Accept(w)
  \/ \E p \in Peers : PeerJoin(Home(p), p)
  \/ CleanupPass
  \/ TickRegistry
  \/ Broadcast
  \/ BroadcastResume

SpecBroadcast == Init /\ [][NextBroadcast]_vars

\* ------------------------------------------------------ the heartbeat loop
\* settings.a2a_heartbeat_interval
HeartbeatInterval == 10

\* the peers among the keys of self.agents
PeerKeys(keys) == { keys[i] : i \in 1..Len(keys) } \ {Self}

\* for agent_id in self.agents of _heartbeat_loop, from the key after the first
\* i on: self is skipped; for every other key the to_agent of the one envelope
\* msgs[o] is overwritten and the envelope handed to _send_message. No await
\* in the loop suspends: json.dumps raises before websocket.send is reached,
\* and put on the unbounded queue returns at once.
RECURSIVE heartbeat_fan(_, _, _, _)
heartbeat_fan(st, o, keys, i) ==
  IF i >= Len(keys) THEN st
  ELSE IF keys[i + 1] = Self THEN heartbeat_fan(st, o, keys, i + 1)
  ELSE heartbeat_fan(send_message([ st EXCEPT !.msgs[o].to_agent = keys[i + 1] ],
                                  o),
                     o, keys, i + 1)

\* one round of _heartbeat_loop's body up to its sleep: one Heartbeat envelope
\* is constructed (to_agent None) and fanned out; when the round is over, an
\* envelope that the queue does not hold is garbage and leaves the store
heartbeat_round(st) ==
  LET o == Len(st.msgs) + 1
      m == A2AMessage(Uuid(Self, o), "HEARTBEAT", Self, NoAgent,
                      [ status |-> "online",
                        stats |-> [ uptime_start |-> DateTime ] ], NoId, now)
      st1 == heartbeat_fan([ st EXCEPT !.msgs = Append(@, m) ], o,
                           AgentKeys(st.agents), 0)
  IN  IF \E k \in 1..Len(st1.message_queue) : st1.message_queue[k] = o
      THEN st1
      ELSE [ st1 EXCEPT !.msgs = SubSeq(@, 1, o - 1) ]

\* the sleep of the heartbeat loop is over (at once after start)
HeartbeatDue == now >= Min(beat.wake, MaxTime)

\* the rounds go on for ever, and stats["errors"] with them: the counter is
\* followed up to MaxErrors
HeartbeatRound ==
  /\ TasksAlive
  /\ HeartbeatDue
  /\ Len(heartbeat_round(St).msgs) <= MaxMsgs
  /\ Apply([ heartbeat_round(St) EXCEPT !.errors = Min(@, MaxErrors) ],
           "heartbeat", NoMsg, NoId)
  /\ beat' = [ wake |-> now + HeartbeatInterval ]
  /\ UNCHANGED << handler_workflows, nest, coord, cleanup, registry, active_workflows, codec, fanout,
                  running, chan, message_handlers, proc, now >>

\* The heartbeat loop while peers join and their connections come and go
NextHeartbeat ==
  \/ Start
  \/ \E w \in Channels : Accept(w)
  \/ \E p \in Peers : PeerJoin(Home(p), p)
  \/ \E w \in Channels : Close(w)
  \/ \E w \in Channels : ConnFinally(w)
  \/ TickRegistry
  \/ HeartbeatRound

SpecHeartbeat == Init /\ [][NextHeartbeat]_vars

\* ------------------------------------------------- the three loops together
\* the peer of the handler where the loops are followed together
LoopPeer == "P1"

\* send_notification is called for the peer before the handler has built any
\* envelope
NotifyEarly == msgs = << >> /\ SendNotification(LoopPeer)

\* a task whose sleep is over runs before the clock moves on
LoopsReady == TasksAlive /\ (HeartbeatDue \/ CleanupDue)

TickLoops == ~LoopsReady /\ TickRegistry

\* The heartbeat loop, the delivery loop and the cleanup loop, with a peer
\* that is sent a notification before it is heard of, joins, and closes its
\* websocket
NextLoops ==
  \/ Start
  \/ NotifyEarly
  \/ Accept(Home(LoopPeer))
  \/ PeerJoin(Home(LoopPeer), LoopPeer)
  \/ Close(Home(LoopPeer))
  \/ ProcStep
  \/ HeartbeatRound
  \/ CleanupPass
  \/ TickLoops

SpecLoops == Init /\ [][NextLoops]_vars

\* the handler is started, each task is scheduled whenever it can run, and
\* time passes
FairLoops ==
  /\ SpecLoops
  /\ WF_vars(Start)
  /\ WF_vars(ProcStep)
  /\ WF_vars(HeartbeatRound)
  /\ WF_vars(CleanupPass)
  /\ WF_vars(TickLoops)

\* ------------------------------------------------------ the connection map
\* Connections that come and go, each carrying envelopes with the from_agent
\* of either peer
NextConnections ==
  \/ Start
  \/ \E w \in Channels : Accept(w)
  \/ \E w \in Channels, p \in Peers : PeerHeartbeat(w, p)
  \/ \E w \in Channels, p \in Peers : PeerRegister(w, p)
  \/ \E w \in Channels : Close(w)
  \/ \E w \in Channels : ConnFinally(w)

SpecConnections == Init /\ [][NextConnections]_vars

\* ------------------------------------------ workflows the handler tracks
\* payload.get(key, default)
PayloadGet(payload, key, default) ==
  IF key \in DOMAIN payload THEN payload[key] ELSE default

\* A2AProtocolHandler._handle_workflow: a "start" records the workflow under
\* the envelope's workflow_id, a "step_complete" for a recorded workflow moves
\* it one step on and completes it at or past the number of its steps
handle_workflow(workflows, message) ==
  LET workflow_id == message.workflow_id
      action == PayloadGet(message.payload, "action", NoneType)
  IN  IF action = "start"
      THEN (workflow_id :>
              [ id |-> workflow_id, initiator |-> message.from_agent,
                steps |-> PayloadGet(message.payload, "steps", << >>),
                current_step |-> 0, status |-> "running" ])
           @@ workflows
      ELSE IF action = "step_complete" /\ workflow_id \in DOMAIN workflows
      THEN LET workflow == workflows[workflow_id]
               moved == workflow.current_step + 1
           IN  [ workflows EXCEPT ![workflow_id] =
                   [ workflow EXCEPT
                       !.current_step = moved,
                       !.status = IF moved >= Len(workflow.steps)
                                  THEN "completed" ELSE @ ] ]
      ELSE workflows

\* a Workflow envelope as a peer serialises it
WorkflowDict(p, workflow_id, payload) ==
  [ PeerDict(p, 0, "workflow", payload, NoId) EXCEPT !.workflow_id = workflow_id ]

\* _handle_connection reads a Workflow envelope: the sender is bound, the
\* dispatch reaches _handle_workflow
ReceiveWorkflow(w, d) ==
  /\ running = "started"
  /\ chan[w] = "open"
  /\ Apply(handle_connection(St, w, d), "receive", from_dict(d), NoId)
  /\ handler_workflows' = handle_workflow(handler_workflows, from_dict(d))
  /\ UNCHANGED << nest, beat, coord, cleanup, registry, active_workflows, codec,
                  fanout, running, chan, message_handlers, proc, now >>

\* the workflow ids peers use, and the step lists of their "start" payloads
TrackedIds == { << "wf", 1 >>, << "wf", 2 >> }
TrackedSteps == { [ i \in 1..n |-> [ action |-> "act" ] ] : n \in 0..MaxSteps }

PeerWorkflowStart(w, p, workflow_id, steps) ==
  ReceiveWorkflow(w, WorkflowDict(p, workflow_id,
                                  [ action |-> "start", steps |-> steps ]))

\* a peer reports a step; the reports a model run follows end one past the
\* longest step list
PeerStepComplete(w, p, workflow_id) ==
  /\ workflow_id \in DOMAIN handler_workflows =>
       handler_workflows[workflow_id].current_step <= MaxSteps
  /\ ReceiveWorkflow(w, WorkflowDict(p, workflow_id,
                                     [ action |-> "step_complete" ]))

\* Peers start workflows and report their steps to the handler
NextTracking ==
  \/ Start
  \/ \E w \in Channels : Accept(w)
  \/ \E p \in Peers, id \in TrackedIds, steps \in TrackedSteps :
       PeerWorkflowStart(Home(p), p, id, steps)
  \/ \E p \in Peers, id \in TrackedIds : PeerStepComplete(Home(p), p, id)

SpecTracking == Init /\ [][NextTracking]_vars

\* the workflow and the step list of the peers of NextEntries
EntryWorkflow == << "wf", 1 >>
EntrySteps == << [ action |-> "act" ] >>

\* Peers, registered or not, send every kind of envelope to the handler
NextEntries ==
  \/ Start
  \/ register_handler("echo")
  \/ \E w \in Channels : Accept(w)
  \/ \E p \in Peers : PeerRegister(Home(p), p)
  \/ \E p \in Peers : PeerHeartbeat(Home(p), p)
  \/ \E p \in Peers, t \in {"echo", NoneType} : PeerRequest(Home(p), p, t)
  \/ \E p \in Peers : PeerOrphan(Home(p), p, "response", BogusId)
  \/ \E p \in Peers : PeerNotification(Home(p), p, "echo")
  \/ \E p \in Peers : PeerWorkflowStart(Home(p), p, EntryWorkflow, EntrySteps)

SpecEntries == Init /\ [][NextEntries]_vars

\* --------------------------------------------------------- nested requests
\* the peer whose Request is served by a handler that calls the peer back, the
\* websocket it sends that Request on, and the handler's type
NestPeer == "P1"
NestChannel == Home(NestPeer)
OtherChannel == "w2"
RelayType == "relay"

\* everything but the read loop of NestChannel and the observation
NestVars ==
  << running, agents, connections, chan, message_handlers, pending_requests,
     calls, msgs, message_queue, wire, stats, proc, now, hist, cleanup,
     registry, active_workflows, codec, fanout, beat, coord,
     handler_workflows >>

\* the peer sends a Request of the relay type on NestChannel: the frame waits
\* for the read loop
PeerSendsRelay ==
  /\ running = "started"
  /\ chan[NestChannel] = "open"
  /\ nest.asked < MaxNested
  /\ nest' = [ nest EXCEPT
                 !.inbox = Append(@, PeerDict(NestPeer, nest.asked + 1, "request",
                                              [ type |-> RelayType,
                                                msg |-> "hi" ], NoId)),
                 !.asked = @ + 1 ]
  /\ ev' = [ NoEv EXCEPT !.op = "arrive" ]
  /\ UNCHANGED NestVars

\* the answer of the peer to the Request d the handler wrote to it, as
\* _handle_request builds it
AnswerTo(d) ==
  LET message == from_dict(d)
      r == request_reply(message, PeerHandlers)
  IN  PeerDict(message.to_agent, message.id[2], MessageType[r.mtype], r.payload,
               message.id)

\* the peer answers on NestChannel: the frame waits for the read loop
PeerAnswers(d) ==
  /\ chan[NestChannel] = "open"
  /\ d.to = NestPeer
  /\ \A k \in 1..Len(nest.inbox) : nest.inbox[k] # AnswerTo(d)
  /\ nest' = [ nest EXCEPT !.inbox = Append(@, AnswerTo(d)) ]
  /\ ev' = [ NoEv EXCEPT !.op = "arrive" ]
  /\ UNCHANGED NestVars

\* _handle_connection reads a Request of the relay type, binds its sender and
\* awaits _process_incoming_message, which awaits _handle_request, which
\* awaits the registered handler; the handler calls send_request to the
\* sender of the Request and waits there
nested_start(st, w, message) ==
  LET st1 == IF message.from_agent \in StBound(st) THEN st
             ELSE [ st EXCEPT !.connections =
                      Append(@, << message.from_agent, w >>) ]
      st2 == [ st1 EXCEPT !.invoked =
                 Append(@, [ type |-> RelayType, payload |-> message.payload ]) ]
  IN  send_request(st2, message.from_agent, "echo", [ msg |-> "hi" ])

\* the frame is a Request that the relay handler will serve
Relayed(message) ==
  /\ message.message_type = "REQUEST"
  /\ PayloadType(message.payload) = RelayType
  /\ RelayType \in message_handlers

\* 'async for message in websocket' of NestChannel yields its next frame; the
\* loop asks for the next one only when the await of this one is over
ReadFrame ==
  /\ running = "started"
  /\ chan[NestChannel] = "open"
  /\ nest.pc = "idle"
  /\ nest.inbox # << >>
  /\ LET d == Head(nest.inbox)
         message == from_dict(d)
     IN  IF Relayed(message)
         THEN /\ Cardinality(DOMAIN calls) < MaxCalls
              /\ Len(msgs) < MaxMsgs
              /\ Apply(nested_start(St, NestChannel, message), "nested_call",
                       message, Uuid(Self, Len(msgs) + 1))
              /\ nest' = [ pc |-> "in_handler", inbox |-> Tail(nest.inbox),
                           asked |-> nest.asked, req |-> message,
                           call |-> Uuid(Self, Len(msgs) + 1) ]
         ELSE /\ Len(handle_connection(St, NestChannel, d).msgs) <= MaxMsgs
              /\ Apply(handle_connection(St, NestChannel, d), "receive",
                       message, NoId)
              /\ nest' = [ nest EXCEPT !.inbox = Tail(@) ]
  /\ UNCHANGED << handler_workflows, beat, coord, cleanup, registry, active_workflows, codec,
                  fanout, running, chan, message_handlers, proc, now >>

\* the read loop is back at 'async for message in websocket'
Reading == [ pc |-> "idle", inbox |-> nest.inbox, asked |-> nest.asked ]

\* the handler's send_request times out: TimeoutError leaves the handler, the
\* except of _handle_request sends the Error envelope with str(e)
nested_timeout(st, c, req) ==
  build_and_send([ wait_times_out(st, c) EXCEPT !.exc = FALSE ], "ERROR",
                 req.from_agent, [ error |-> "", status |-> "error" ], req.id)

NestedTimeout ==
  /\ nest.pc = "in_handler"
  /\ calls[nest.call].fut = "pending"
  /\ Len(msgs) < MaxMsgs
  /\ Apply(nested_timeout(St, nest.call, nest.req), "nested_timeout", nest.req,
           nest.call)
  /\ nest' = Reading
  /\ UNCHANGED << handler_workflows, beat, coord, cleanup, registry, active_workflows, codec,
                  fanout, running, chan, message_handlers, proc, now >>

\* the handler's send_request returns the Response; the handler returns its
\* payload and _handle_request sends the Response envelope
nested_return(st, c, req) ==
  build_and_send(wait_returns(st, c), "RESPONSE", req.from_agent,
                 [ result |-> st.calls[c].result.payload, status |-> "success" ],
                 req.id)

NestedReturn ==
  /\ nest.pc = "in_handler"
  /\ calls[nest.call].fut = "done"
  /\ Len(msgs) < MaxMsgs
  /\ Apply(nested_return(St, nest.call, nest.req), "nested_return", nest.req,
           nest.call)
  /\ nest' = Reading
  /\ UNCHANGED << handler_workflows, beat, coord, cleanup, registry, active_workflows, codec,
                  fanout, running, chan, message_handlers, proc, now >>

\* A peer whose Request makes the handler call it back; the peer answers on
\* the websocket it asked on, or on a second one
NextNested ==
  \/ Start
  \/ register_handler(RelayType)
  \/ \E w \in Channels : Accept(w)
  \/ PeerSendsRelay
  \/ ReadFrame
  \/ \E d \in WrittenRequests : PeerAnswers(d)
  \/ \E d \in WrittenRequests : d.to = NestPeer /\ PeerReply(OtherChannel, d)
  \/ NestedTimeout
  \/ NestedReturn

SpecNested == Init /\ [][NextNested]_vars

\* ------------------------------------------------- the envelope round trip
\* the envelopes: every kind and priority, to_agent, correlation_id and
\* workflow_id each set or None, an empty and a filled payload, the default
\* ttl and one set by hand
Envelopes ==
  { [ id |-> Uuid("P1", 1), message_type |-> k, from_agent |-> "P1",
      to_agent |-> to, payload |-> pl, priority |-> pr,
      correlation_id |-> corr, workflow_id |-> wf, timestamp |-> 0,
      ttl |-> ttl ] :
      k \in DOMAIN MessageType, pr \in DOMAIN MessagePriority,
      to \in {NoAgent, "P2"}, corr \in {NoId, Uuid("P2", 1)},
      wf \in {NoId, Uuid("wf", 1)},
      pl \in { EmptyMap, [ action |-> "test", data |-> "hello" ] },
      ttl \in {DefaultTTL, 60} }

\* an envelope has been constructed, nothing else has happened
InitRoundTrip ==
  /\ InitHandler
  /\ \E e \in Envelopes : codec = [ stage |-> "made", e |-> e ]

\* message_dict = message.to_dict()
Encode ==
  /\ codec.stage = "made"
  /\ codec' = [ stage |-> "dict", e |-> codec.e, d |-> to_dict(codec.e) ]
  /\ ev' = [ NoEv EXCEPT !.op = "to_dict" ]
  /\ UNCHANGED << handler_workflows, nest, beat, coord, registry, active_workflows, running, agents, connections,
                  chan, message_handlers, pending_requests, calls, msgs,
                  message_queue, wire, stats, proc, now, hist, cleanup,
                  fanout >>

\* reconstructed = A2AMessage.from_dict(message_dict)
Decode ==
  /\ codec.stage = "dict"
  /\ from_dict_error(codec.d) = NoneType
  /\ codec' = [ stage |-> "back", e |-> codec.e, d |-> codec.d,
                 back |-> from_dict(codec.d) ]
  /\ ev' = [ NoEv EXCEPT !.op = "from_dict" ]
  /\ UNCHANGED << handler_workflows, nest, beat, coord, registry, active_workflows, running, agents, connections,
                  chan, message_handlers, pending_requests, calls, msgs,
                  message_queue, wire, stats, proc, now, hist, cleanup,
                  fanout >>

NextRoundTrip == Encode \/ Decode

SpecRoundTrip == InitRoundTrip /\ [][NextRoundTrip]_vars

\* --------------------------------------------------- coordination patterns
\* the agents a pattern may name: each has an AgentInterface of its own
AllAgents == {Self} \cup Peers

\* how the agent asked answers an "agent_request": its request handler
\* returns, its request handler raises, or no Response ever arrives and the
\* caller's wait times out
Behaviours == {"ok", "raises", "silent"}

\* participant lists of up to n agents
RECURSIVE Participants(_)
Participants(n) ==
  IF n = 0 THEN { << >> }
  ELSE LET shorter == Participants(n - 1) IN
       shorter \cup { Append(l, a) : l \in { x \in shorter : Len(x) = n - 1 },
                                     a \in AllAgents }

\* the registered request handlers of agent a: the one for "vote" returns
\* the agent's vote, which the payload lists here, the one for "process_data"
\* adds the agent's name to the data
RequestHandler(a, request_type, data) ==
  IF request_type = "vote" THEN [ vote |-> data[a] ] ELSE Append(data, a)

\* AgentInterface._handle_agent_request of agent a: the result of the request
\* handler, or an error dict when the handler raised
handle_agent_request(a, request_type, data, behaviour) ==
  IF behaviour = "ok"
  THEN [ status |-> "success", result |-> RequestHandler(a, request_type, data) ]
  ELSE [ status |-> "error", error |-> "boom" ]

\* AgentInterface.send_request(to_agent, request_type, payload): the "result"
\* of the Response's payload, which is what _handle_agent_request returned; it
\* raises when the wait for the Response times out
agent_send_request(to_agent, request_type, payload, behaviour) ==
  IF behaviour = "silent"
  THEN [ raised |-> TRUE,  value |-> EmptyMap ]
  ELSE [ raised |-> FALSE,
         value |-> handle_agent_request(to_agent, request_type, payload,
                                        behaviour) ]

\* response.get("result", current_data)
ResultOr(response, current_data) ==
  IF "result" \in DOMAIN response THEN response.result ELSE current_data

\* the loop of pipeline_pattern from index i (0-based) on; asked is the list
\* of the agents a request was sent to, with the data sent
RECURSIVE pipeline_loop(_, _, _, _, _, _, _)
pipeline_loop(participants, interfaces, behaviour, i, current_data, results, asked) ==
  IF i >= Len(participants) - 1
  THEN [ status |-> "success", data |-> current_data, steps |-> results,
         asked |-> asked ]
  ELSE LET current_agent == participants[i + 1]
           next_agent == participants[i + 2]
       IN  IF current_agent \notin interfaces
           THEN pipeline_loop(participants, interfaces, behaviour, i + 1,
                              current_data, results, asked)
           ELSE LET r == agent_send_request(next_agent, "process_data",
                                            current_data,
                                            behaviour[next_agent])
                    asked1 == Append(asked, [ agent |-> next_agent,
                                              data |-> current_data ])
                IN  IF r.raised
                    THEN [ status |-> "error", data |-> current_data,
                           steps |-> results, asked |-> asked1 ]
                    ELSE pipeline_loop(
                           participants, interfaces, behaviour, i + 1,
                           ResultOr(r.value, current_data),
                           Append(results, [ agent |-> next_agent,
                                             response |-> r.value ]),
                           asked1)

\* pipeline_pattern(participants, context, agents) with initial_data {}:
\* status, final_result (data), pipeline_results or completed_steps (steps)
pipeline_pattern(participants, interfaces, behaviour) ==
  IF Len(participants) < 2
  THEN [ status |-> "error", data |-> << >>, steps |-> << >>,
         asked |-> << >> ]
  ELSE pipeline_loop(participants, interfaces, behaviour, 0, << >>, << >>,
                     << >>)

\* what no coordination pattern changes
PatternVars ==
  << running, agents, connections, chan, message_handlers, pending_requests,
     calls, msgs, message_queue, wire, stats, proc, now, hist, cleanup,
     registry, active_workflows, codec, fanout, beat, nest, handler_workflows >>

\* one call of pipeline_pattern
Pipeline(participants, interfaces, behaviour) ==
  /\ coord.pattern = "none"
  /\ coord' = [ pattern |-> "pipeline", participants |-> participants,
                interfaces |-> interfaces, behaviour |-> behaviour,
                out |-> pipeline_pattern(participants, interfaces, behaviour) ]
  /\ ev' = [ NoEv EXCEPT !.op = "pipeline" ]
  /\ UNCHANGED PatternVars

\* The pipeline pattern over every participant list, set of interfaces and
\* behaviour of the agents asked
NextPipeline ==
  /\ coord.pattern = "none"
  /\ \E participants \in Participants(MaxParticipants),
        interfaces \in SUBSET AllAgents,
        behaviour \in [ AllAgents -> Behaviours ] :
          Pipeline(participants, interfaces, behaviour)

SpecPipeline == Init /\ [][NextPipeline]_vars

\* the keys of the dict filled in the order of the list l: each agent once,
\* where it comes first
RECURSIVE Keys(_)
Keys(l) ==
  IF l = << >> THEN << >>
  ELSE LET front == Keys(SubSeq(l, 1, Len(l) - 1))
           a == l[Len(l)]
       IN  IF \E i \in 1..Len(front) : front[i] = a THEN front
           ELSE Append(front, a)

\* MultiAgentCoordinator.collect_responses: one send_request per agent id
\* that is registered, gathered; an exception becomes {"error": str(e)}
collect_responses(agent_ids, interfaces, request_type, payload, behaviour) ==
  LET ids == Keys(SelectSeq(agent_ids, LAMBDA a : a \in interfaces))
  IN  [ i \in 1..Len(ids) |->
          LET r == agent_send_request(ids[i], request_type, payload,
                                      behaviour[ids[i]])
          IN  [ agent |-> ids[i],
                response |-> IF r.raised THEN [ error |-> "timeout" ]
                             ELSE r.value ] ]

\* votes[vote] = votes.get(vote, 0) + 1, on a dict kept as a list of
\* <<vote, count>> in insertion order
CountVote(votes, vote) ==
  IF \E i \in 1..Len(votes) : votes[i][1] = vote
  THEN [ i \in 1..Len(votes) |->
           IF votes[i][1] = vote THEN << vote, votes[i][2] + 1 >> ELSE votes[i] ]
  ELSE Append(votes, << vote, 1 >>)

\* the tally of consensus_pattern over the first n responses
RECURSIVE Tally(_, _)
Tally(responses, n) ==
  IF n = 0 THEN << >>
  ELSE LET response == responses[n].response
           votes == Tally(responses, n - 1)
       IN  IF "error" \notin DOMAIN response
           THEN CountVote(votes, Get(response, "vote", "abstain"))
           ELSE votes

\* max(votes, key=votes.get): the first key with the greatest count
MaxVote(votes) ==
  votes[CHOOSE i \in 1..Len(votes) :
          /\ \A j \in 1..Len(votes) : votes[j][2] <= votes[i][2]
          /\ \A j \in 1..(i - 1) : votes[j][2] < votes[i][2]][1]

\* consensus_pattern(participants, context, agents) with request_type "vote"
consensus_pattern(participants, interfaces, payload, behaviour) ==
  LET responses == collect_responses(participants, interfaces, "vote",
                                     payload, behaviour)
      votes == Tally(responses, Len(responses))
  IN  IF votes # << >>
      THEN [ status |-> "success", consensus |-> MaxVote(votes),
             votes |-> votes, responses |-> responses ]
      ELSE [ status |-> "error", consensus |-> NoneType, votes |-> votes,
             responses |-> responses ]

\* one call of consensus_pattern; ballots is how each agent votes
Consensus(participants, interfaces, ballots, behaviour) ==
  /\ coord.pattern = "none"
  /\ coord' = [ pattern |-> "consensus", participants |-> participants,
                interfaces |-> interfaces, behaviour |-> behaviour,
                ballots |-> ballots,
                out |-> consensus_pattern(participants, interfaces, ballots,
                                          behaviour) ]
  /\ ev' = [ NoEv EXCEPT !.op = "consensus" ]
  /\ UNCHANGED PatternVars

\* The consensus pattern over every participant list, set of interfaces,
\* vote and behaviour of the agents asked
NextConsensus ==
  /\ coord.pattern = "none"
  /\ \E participants \in Participants(MaxParticipants),
        interfaces \in SUBSET AllAgents,
        ballots \in [ AllAgents -> {"yes", "no"} ],
        behaviour \in [ AllAgents -> Behaviours ] :
          Consensus(participants, interfaces, ballots, behaviour)

SpecConsensus == Init /\ [][NextConsensus]_vars

\* ------------------------------------------- service registry and workflows
Capabilities == {"c1", "c2"}

\* the steps a workflow definition may list; the last names no capability
StepChoices ==
  { [ capability |-> "c1", action |-> "act" ],
    [ capability |-> "c2", action |-> "act" ],
    [ action |-> "act" ] }

\* workflow definitions: {"steps": [...]} with up to MaxSteps steps
RECURSIVE StepLists(_)
StepLists(n) ==
  IF n = 0 THEN { << >> }
  ELSE LET shorter == StepLists(n - 1) IN
       shorter \cup { Append(l, c) : l \in { x \in shorter : Len(x) = n - 1 },
                                     c \in StepChoices }

WorkflowIds == { << "wf", 1 >> }

\* the orders in which a set of agent ids may be iterated
AgentOrders == { << "P1", "P2" >>, << "P2", "P1" >> }

\* a function without the key k
Without(f, k) == [ x \in (DOMAIN f) \ {k} |-> f[x] ]

\* ServiceRegistry.register_service: the service is stored under its agent id
\* and the agent is added to the index set of each of its capabilities
register_service(reg, agent_id, caps) ==
  LET service == [ agent_id |-> agent_id, capabilities |-> caps,
                   status |-> "healthy", last_seen |-> now ]
  IN  [ services |-> (agent_id :> service) @@ reg.services,
        capability_index |->
          [ c \in (DOMAIN reg.capability_index) \cup caps |->
              IF c \in caps
              THEN (IF c \in DOMAIN reg.capability_index
                    THEN reg.capability_index[c] ELSE {}) \cup {agent_id}
              ELSE reg.capability_index[c] ] ]

\* ServiceRegistry.unregister_service: the agent leaves the index sets of the
\* capabilities its stored service lists; an index set left empty is deleted
unregister_service(reg, agent_id) ==
  IF agent_id \in DOMAIN reg.services
  THEN LET caps == reg.services[agent_id].capabilities
           idx  == [ c \in DOMAIN reg.capability_index |->
                       IF c \in caps THEN reg.capability_index[c] \ {agent_id}
                       ELSE reg.capability_index[c] ]
       IN  [ services |-> Without(reg.services, agent_id),
             capability_index |->
               [ c \in { x \in DOMAIN idx : ~(x \in caps /\ idx[x] = {}) } |->
                   idx[c] ] ]
  ELSE reg

\* ServiceRegistry.update_service_health
update_service_health(reg, agent_id, status) ==
  IF agent_id \in DOMAIN reg.services
  THEN [ reg EXCEPT !.services[agent_id].status = status,
                    !.services[agent_id].last_seen = now ]
  ELSE reg

\* ServiceRegistry.get_services_by_capability: the agents of the capability's
\* index set that are registered and healthy
get_services_by_capability(reg, capability) ==
  IF capability \notin DOMAIN reg.capability_index THEN {}
  ELSE { a \in reg.capability_index[capability] :
           a \in DOMAIN reg.services /\ reg.services[a].status = "healthy" }

\* ServiceDiscovery.find_best_agent: min(agents, key=last_seen), the first of
\* the least recently seen in the order the index set is iterated; NoAgent
\* stands for None
find_best_agent(reg, capability, ord) ==
  LET found == get_services_by_capability(reg, capability)
      least == { a \in found : \A b \in found :
                   reg.services[a].last_seen <= reg.services[b].last_seen }
  IN  IF found = {} THEN NoAgent
      ELSE ord[CHOOSE i \in 1..Len(ord) :
                 /\ ord[i] \in least
                 /\ \A j \in 1..(i-1) : ord[j] \notin least]

\* step.get("capability")
StepCapability(step) ==
  IF "capability" \in DOMAIN step THEN step.capability ELSE NoneType

\* the workflow dict start_workflow builds; log is the order of what was done
NewWorkflow(workflow_id, steps) ==
  [ id |-> workflow_id, steps |-> steps, status |-> "running",
    current_step |-> 0, steps_completed |-> << >>, errors |-> << >>,
    log |-> << >> ]

\* the except branch of _execute_workflow_step
StepFailed(workflow, step_index, capability) ==
  [ workflow EXCEPT
      !.errors = Append(@, [ step_index |-> step_index,
                             error |-> "No agent found for capability: "
                                         \o Str(capability) ]),
      !.status = "failed",
      !.log = Append(@, << "attempt", step_index >>) ]

\* a completed step that is recorded without moving to the next index
StepDone_keeps_index(workflow, step_index, agent) ==
  [ workflow EXCEPT
      !.steps_completed = Append(@, [ step_index |-> step_index,
                                      agent_id |-> agent ]),
      !.log = Append(@, << "attempt", step_index >>)
                 \o << << "complete", step_index >> >> ]

\* the step is marked completed and the workflow moves to the next index
StepDone(workflow, step_index, agent) ==
  [ workflow EXCEPT
      !.steps_completed = Append(@, [ step_index |-> step_index,
                                      agent_id |-> agent ]),
      !.current_step = step_index + 1,
      !.log = Append(@, << "attempt", step_index >>)
                 \o << << "complete", step_index >> >> ]

\* an _execute_workflow_step that records a failed step and goes on
RECURSIVE execute_workflow_step_goes_on(_, _, _, _)
execute_workflow_step_goes_on(reg, workflow, step_index, ord) ==
  IF step_index >= Len(workflow.steps)
  THEN [ workflow EXCEPT !.status = "completed" ]
  ELSE LET capability == StepCapability(workflow.steps[step_index + 1])
           agent == find_best_agent(reg, capability, ord)
       IN  IF agent = NoAgent
           THEN execute_workflow_step_goes_on(
                  reg, StepFailed(workflow, step_index, capability),
                  step_index + 1, ord)
           ELSE execute_workflow_step_goes_on(
                  reg, StepDone(workflow, step_index, agent),
                  step_index + 1, ord)

\* an _execute_workflow_step that never marks the workflow completed
RECURSIVE execute_workflow_step_no_end(_, _, _, _)
execute_workflow_step_no_end(reg, workflow, step_index, ord) ==
  IF step_index >= Len(workflow.steps)
  THEN workflow
  ELSE LET capability == StepCapability(workflow.steps[step_index + 1])
           agent == find_best_agent(reg, capability, ord)
       IN  IF agent = NoAgent
           THEN StepFailed(workflow, step_index, capability)
           ELSE execute_workflow_step_no_end(
                  reg, StepDone(workflow, step_index, agent),
                  step_index + 1, ord)

\* WorkflowOrchestrator._execute_workflow_step: past the last step the
\* workflow is completed; a step without agent fails the workflow; otherwise
\* the step is recorded and the next one executed from inside this one
RECURSIVE execute_workflow_step(_, _, _, _)
execute_workflow_step(reg, workflow, step_index, ord) ==
  IF step_index >= Len(workflow.steps)
  THEN [ workflow EXCEPT !.status = "completed" ]
  ELSE LET capability == StepCapability(workflow.steps[step_index + 1])
           agent == find_best_agent(reg, capability, ord)
       IN  IF agent = NoAgent
           THEN StepFailed(workflow, step_index, capability)
           ELSE execute_workflow_step(
                  reg, StepDone(workflow, step_index, agent),
                  step_index + 1, ord)

\* WorkflowOrchestrator.start_workflow: no await in it suspends, so it runs
\* from the first step to the end in one piece
start_workflow(reg, workflows, workflow_id, steps, ord) ==
  (workflow_id :> execute_workflow_step(
                    reg, NewWorkflow(workflow_id, steps), 0, ord))
    @@ workflows

\* what no action of the discovery side changes
HandlerVars ==
  << running, agents, connections, chan, message_handlers, pending_requests,
     calls, msgs, message_queue, wire, stats, proc, now, hist, cleanup,
     codec, fanout,
     coord,
     beat,
     nest,
     handler_workflows >>

StartWorkflow(workflow_id, steps, ord) ==
  /\ active_workflows' =
       start_workflow(registry, active_workflows, workflow_id, steps, ord)
  /\ ev' = [ NoEv EXCEPT !.op = "start_workflow", !.call = workflow_id ]
  /\ UNCHANGED << registry, HandlerVars >>

\* ServiceDiscovery.register_agent
RegisterAgent(agent_id, caps) ==
  /\ registry' = register_service(registry, agent_id, caps)
  /\ ev' = [ NoEv EXCEPT !.op = "register_agent" ]
  /\ UNCHANGED << active_workflows, HandlerVars >>

\* ServiceDiscovery.unregister_agent
UnregisterAgent(agent_id) ==
  /\ agent_id \in DOMAIN registry.services
  /\ registry' = unregister_service(registry, agent_id)
  /\ ev' = [ NoEv EXCEPT !.op = "unregister_agent" ]
  /\ UNCHANGED << active_workflows, HandlerVars >>

\* a health check of _health_check_loop ends: update_service_health
HealthCheck(agent_id, status) ==
  /\ agent_id \in DOMAIN registry.services
  /\ registry' = update_service_health(registry, agent_id, status)
  /\ ev' = [ NoEv EXCEPT !.op = "health_check" ]
  /\ UNCHANGED << active_workflows, HandlerVars >>

\* The service registry and the workflows run over it
NextWorkflow ==
  \/ \E a \in Peers, caps \in { {"c1"}, Capabilities } : RegisterAgent(a, caps)
  \/ \E a \in Peers, st \in {"healthy", "unhealthy"} : HealthCheck(a, st)
  \/ \E id \in WorkflowIds, steps \in StepLists(MaxSteps), ord \in AgentOrders :
       StartWorkflow(id, steps, ord)

SpecWorkflow == Init /\ [][NextWorkflow]_vars

\* ServiceRegistry.service_timeout, in seconds
ServiceTimeout == 90

\* the agents cleanup_stale_services collects: last seen longer ago than the
\* service timeout
StaleServices(reg) ==
  { a \in DOMAIN reg.services : now - reg.services[a].last_seen > ServiceTimeout }

\* the second loop of cleanup_stale_services: unregister_service for each
\* collected agent
RECURSIVE unregister_each(_, _)
unregister_each(reg, stale) ==
  IF stale = {} THEN reg
  ELSE LET a == CHOOSE x \in stale : TRUE
       IN  unregister_each(unregister_service(reg, a), stale \ {a})

\* ServiceRegistry.cleanup_stale_services
cleanup_stale_services(reg) == unregister_each(reg, StaleServices(reg))

\* a pass of ServiceDiscovery._cleanup_loop
CleanupStale ==
  /\ registry' = cleanup_stale_services(registry)
  /\ ev' = [ NoEv EXCEPT !.op = "cleanup_stale",
                         !.sent = StaleServices(registry) # {} ]
  /\ UNCHANGED << active_workflows, HandlerVars >>

\* the capability lists an agent registers with
CapabilityLists == SUBSET Capabilities \ {{}}

\* The service registry and its capability index: agents register, register
\* again, leave, are checked and grow stale
NextIndex ==
  \/ \E a \in Peers, caps \in CapabilityLists : RegisterAgent(a, caps)
  \/ \E a \in Peers : UnregisterAgent(a)
  \/ \E a \in Peers, st \in {"healthy", "unhealthy"} : HealthCheck(a, st)
  \/ CleanupStale
  \/ TickRegistry

SpecIndex == Init /\ [][NextIndex]_vars


\* ------------------------------------------------------------------- claims
\* the step just taken dispatched an envelope of this kind
Dispatched(kind) == ev.op = "receive" /\ ev.msg.message_type = kind

\* C1 - Correlation uniqueness.  A step that dispatches a Response whose
\* correlation_id is c resolves the future of call c with that Response if c
\* is pending, and changes no other call: every other call keeps its future,
\* its position and its pending entry.
C1_CorrelationUniqueness ==
  [][ (ev'.op = "receive" /\ ev'.msg.message_type = "RESPONSE") =>
        LET c == ev'.msg.correlation_id IN
        /\ \A d \in DOMAIN calls :
             d # c => /\ calls'[d] = calls[d]
                      /\ (d \in pending_requests <=> d \in pending_requests')
        /\ (c \in pending_requests /\ calls[c].fut = "pending") =>
             /\ calls'[c].fut = "done"
             /\ calls'[c].result = ev'.msg ]_vars

\* two calls to the same agent are outstanding; the Response to one has just
\* resolved it, and the other still waits with its pending entry
C1_Witness ==
  /\ Dispatched("RESPONSE")
  /\ \E c, d \in DOMAIN calls :
       /\ c # d
       /\ calls[c].to = calls[d].to
       /\ ev.msg.correlation_id = c
       /\ calls[c].fut = "done"
       /\ calls[d].pc = "waiting" /\ calls[d].fut = "pending"
       /\ d \in pending_requests

\* C2 - Timeout isolation.  The step in which the wait of send_request elapses
\* raises the timeout error to the caller, and from then on the request's id
\* is not in pending_requests.
C2_TimeoutIsolation ==
  /\ \A c \in DOMAIN calls :
       calls[c].pc = "timeout" => c \notin pending_requests
  /\ ev.op = "timeout" => ev.raised /\ calls[ev.call].pc = "timeout"

C2_Witness ==
  /\ ev.op = "timeout"
  /\ calls[ev.call].pc = "timeout"
  /\ \E d \in DOMAIN calls : d # ev.call /\ d \in pending_requests

\* C3 - Late-reply safety.  A step that dispatches a Response whose
\* correlation_id is not in pending_requests (timed out, answered before, or
\* never issued) raises nothing, leaves pending_requests and every call's
\* future as they were, and leaves stats["errors"] as it was.
C3_LateReplySafety ==
  [][ ( /\ ev'.op = "receive"
        /\ ev'.msg.message_type = "RESPONSE"
        /\ ev'.msg.correlation_id \notin pending_requests ) =>
        /\ pending_requests' = pending_requests
        /\ calls' = calls
        /\ stats' = stats
        /\ ~ev'.raised ]_vars

\* the Response to a call that has timed out has just been dispatched, while
\* another call is still waiting
C3_Witness ==
  /\ Dispatched("RESPONSE")
  /\ ev.msg.correlation_id \in DOMAIN calls
  /\ calls[ev.msg.correlation_id].pc = "timeout"
  /\ \E d \in DOMAIN calls : calls[d].pc = "waiting" /\ d \in pending_requests
  /\ stats.errors = 0

\* C4 - An Error envelope whose correlation_id matches a pending request
\* resolves that request's future and removes its pending entry: once such an
\* Error has been dispatched, its correlation_id is no longer pending.
C4_ErrorResolvesPending ==
  Dispatched("ERROR") => ev.msg.correlation_id \notin pending_requests

\* C5 - Every dispatched Request hands exactly one reply to the send path: a
\* Response with payload {status: success, result} when the registered
\* handler returns, an Error otherwise; the reply's correlation_id is the
\* Request's id and its to_agent the Request's from_agent.
C5_OneReplyPerRequest ==
  Dispatched("REQUEST") =>
    /\ Len(ev.sent) = 1
    /\ ~ev.raised
    /\ LET reply == ev.sent[1].msg
           t     == PayloadType(ev.msg.payload)
       IN  /\ reply.correlation_id = ev.msg.id
           /\ reply.to_agent = ev.msg.from_agent
           /\ reply.from_agent = Self
           /\ IF t \in message_handlers /\ HandlerCall(t, ev.msg.payload).ok
              THEN /\ reply.message_type = "RESPONSE"
                   /\ reply.payload =
                        [ status |-> "success",
                          result |-> HandlerCall(t, ev.msg.payload).value ]
              ELSE reply.message_type = "ERROR"

\* a Request whose registered handler raised has just been answered with an
\* Error written to the requester's websocket
C5_Witness ==
  /\ Dispatched("REQUEST")
  /\ PayloadType(ev.msg.payload) = "boom"
  /\ "boom" \in message_handlers
  /\ Len(ev.sent) = 1
  /\ ev.sent[1].how = "written"
  /\ ev.sent[1].msg.message_type = "ERROR"

\* C6 - No-handler behaviour.  A dispatched Request whose payload type has no
\* entry in message_handlers is answered with one Error envelope whose error
\* text is "No handler for request type: " followed by the request type, and
\* no handler function is called.
C6_NoHandler ==
  ( Dispatched("REQUEST")
    /\ PayloadType(ev.msg.payload) \notin message_handlers ) =>
    /\ Len(ev.sent) = 1
    /\ ev.sent[1].msg.message_type = "ERROR"
    /\ ev.sent[1].msg.correlation_id = ev.msg.id
    /\ ev.sent[1].msg.payload.error =
         "No handler for request type: " \o Str(PayloadType(ev.msg.payload))
    /\ ev.invoked = << >>

\* a Request of type "nope" arrived while other types had handlers
C6_Witness ==
  /\ Dispatched("REQUEST")
  /\ PayloadType(ev.msg.payload) = "nope"
  /\ message_handlers # {}
  /\ Len(ev.sent) = 1
  /\ ev.sent[1].msg.payload.error = "No handler for request type: nope"

\* the calls send_request(P, "echo", {"msg": "hi"}) that have returned
EchoReturned ==
  { c \in DOMAIN calls : /\ calls[c].pc = "returned"
                         /\ calls[c].type = "echo"
                         /\ calls[c].payload = [ msg |-> "hi" ] }

\* C7 as stated - End-to-end echo: the reply to send_request(A, "echo",
\* {"msg": "hi"}) has payload {"status": "success", "result": {"echoed":
\* {"msg": "hi"}}}.
C7_EchoAsStated ==
  \A c \in EchoReturned :
    calls[c].result.payload =
      [ status |-> "success", result |-> [ echoed |-> [ msg |-> "hi" ] ] ]

\* C7 amended - the handler is given the Request's payload, which is the
\* caller's map together with "type": "echo", and its result is wrapped
\* unchanged: the reply's payload is {"status": "success", "result":
\* {"echoed": {"type": "echo", "msg": "hi"}}}, correlated to the call.
C7_EchoAmended ==
  \A c \in EchoReturned :
    /\ calls[c].result.payload =
         [ status |-> "success",
           result |-> [ echoed |-> [ type |-> "echo", msg |-> "hi" ] ] ]
    /\ calls[c].result.correlation_id = c
    /\ calls[c].result.message_type = "RESPONSE"

C7_Witness == ev.op = "return" /\ ev.call \in EchoReturned

\* the envelope msgs[o] has been written to a websocket, addressed to p
WrittenTo(o, p) ==
  /\ o <= Len(msgs)
  /\ \E w \in Channels : \E i \in 1..Len(wire[w]) :
       /\ wire[w][i].data.id = msgs[o].id
       /\ wire[w][i].data.to = p

\* p has an entry in self.connections, and its websocket is open
BoundOpen(p) == p \in Bound /\ chan[ConnOf(p)] = "open"

\* msgs[o] was handed to _send_message for p while p had no entry in
\* self.connections, p's channel is bound now, within the envelope's ttl, and
\* the envelope has not been written to p
Owed(o, p) ==
  /\ \E h \in hist.handed : h.obj = o /\ h.to = p /\ h.how = "queued"
  /\ now <= msgs[o].timestamp + msgs[o].ttl
  /\ BoundOpen(p)
  /\ ~WrittenTo(o, p)

\* C8 - Delivery-queue convergence.  An envelope handed to the send path while
\* its to_agent had no entry in the connection map, whose peer's channel is
\* bound before timestamp + ttl, is eventually written to that peer's
\* channel, unless the channel goes away again first.
C8_QueueConvergence ==
  \A o \in 1..MaxMsgs, p \in Peers :
    Owed(o, p) ~> (WrittenTo(o, p) \/ ~BoundOpen(p))

\* C9 - No late delivery.  An envelope of the delivery queue whose target had
\* no channel until after timestamp + ttl is never written to a channel: every
\* line the processor wrote went to a peer that was bound within the ttl.
C9_NoLateDelivery ==
  \A w \in Channels : \A i \in 1..Len(wire[w]) :
    LET rec == wire[w][i] IN
    rec.via = "queue" =>
      hist.first_bound[rec.data.to] <= rec.data.timestamp + rec.data.ttl

\* C10 - PeerUnreachable.  When _send_message found a channel for to_agent
\* and the write failed, the envelope is on the delivery queue after the step
\* and nothing was raised to the caller.
C10_FailedWriteQueued ==
  \A i \in 1..Len(ev.sent) :
    ev.sent[i].how = "failed" =>
      /\ \E j \in 1..Len(message_queue) :
           msgs[message_queue[j]].id = ev.sent[i].msg.id
      /\ ~ev.raised

\* agent p is in self.agents
Registered(p) == \E i \in 1..Len(agents) : agents[i].agent_id = p

\* the registry's entry for p
InfoOf(p) == agents[CHOOSE i \in 1..Len(agents) : agents[i].agent_id = p]

\* p has been silent for longer than the timeout and is not marked offline
Overdue(p) ==
  Registered(p) /\ Age(InfoOf(p)) > A2ATimeout /\ InfoOf(p).status # "OFFLINE"

\* p has been silent for longer than 3 x timeout and is still registered
Lingering(p) == Registered(p) /\ Age(InfoOf(p)) > A2ATimeout * 3

\* C11 - Registry liveness.  When a cleanup pass has run, no peer silent for
\* more than the timeout is left unmarked and none silent for more than
\* 3 x timeout is left registered; cleanup passes keep coming once the handler
\* is started, so a silent peer does not stay unmarked, and one silent for
\* 3 x timeout does not stay registered.
C11_RegistryLiveness ==
  /\ [](ev.op = "cleanup" => \A p \in Peers : ~Overdue(p) /\ ~Lingering(p))
  /\ TasksAlive ~>
       (ev.op = "cleanup" /\ \A p \in Peers : ~Overdue(p) /\ ~Lingering(p))

\* a cleanup pass has just run that left one silent peer marked offline and
\* removed the other, which had registered before
C11_Witness ==
  /\ ev.op = "cleanup"
  /\ \E p, q \in Peers :
       /\ Registered(p) /\ InfoOf(p).status = "OFFLINE"
       /\ Age(InfoOf(p)) > A2ATimeout
       /\ ~Registered(q)
       /\ \E i \in 1..Len(wire[Home(q)]) :
            wire[Home(q)][i].data.payload = 
              [ status |-> "registered", agents |-> << Self, q >> ]

\* C12 - Contact tracking.  Every message received from a registered agent,
\* of any kind, refreshes that agent's last_heartbeat: after the dispatch of a
\* message from an agent that is in the registry, its last_heartbeat is the
\* time of the receipt.
C12_ContactTracking ==
  ( ev.op = "receive" /\ Registered(ev.msg.from_agent) ) =>
    InfoOf(ev.msg.from_agent).last_heartbeat = now

\* C17 - Notifications are fire-and-forget on the receiving side.  The
\* dispatch of a Notification hands no envelope to the send path and raises
\* nothing, whether its type has no handler, the handler returns or the
\* handler raises; the handler is called exactly when one is registered for
\* the type, and stats["errors"] stays as it was.
C17_NotificationFireAndForget ==
  Dispatched("NOTIFICATION") =>
    /\ ev.sent = << >>
    /\ ~ev.raised
    /\ msgs = << >> /\ message_queue = << >> /\ hist.handed = {}
    /\ \A w \in Channels : wire[w] = << >>
    /\ stats.errors = 0
    /\ pending_requests = {}
    /\ LET t == PayloadType(ev.msg.payload) IN
       ev.invoked = IF t \in message_handlers
                    THEN << [ type |-> t, payload |-> ev.msg.payload ] >>
                    ELSE << >>

\* a Notification whose handler raises has just been dispatched
C17_Witness ==
  /\ Dispatched("NOTIFICATION")
  /\ PayloadType(ev.msg.payload) = "boom"
  /\ "boom" \in message_handlers
  /\ ~HandlerCall("boom", ev.msg.payload).ok
  /\ Len(ev.invoked) = 1

\* the workflow the last step started
Started == active_workflows[ev.call]

\* the steps (1-based) of a step list for which the registry finds no agent
FailingSteps(steps) ==
  { k \in 1..Len(steps) :
      get_services_by_capability(registry, StepCapability(steps[k])) = {} }

\* the log of a run that attempts and completes steps 0..n-1 in turn
RECURSIVE CleanLog(_)
CleanLog(n) ==
  IF n = 0 THEN << >>
  ELSE CleanLog(n - 1) \o << << "attempt", n - 1 >>, << "complete", n - 1 >> >>

\* C13 - Workflow termination on failure.  A workflow whose first failing
\* step is step k ends with status failed, k-1 entries in steps_completed
\* (steps 0..k-2 in order), one entry in errors, for step k, and nothing
\* attempted after step k.
C13_WorkflowFailure ==
  ( ev.op = "start_workflow" /\ FailingSteps(Started.steps) # {} ) =>
    LET w == Started
        k == CHOOSE x \in FailingSteps(w.steps) :
               \A y \in FailingSteps(w.steps) : x <= y
    IN  /\ w.status = "failed"
        /\ Len(w.steps_completed) = k - 1
        /\ \A i \in 1..(k-1) : w.steps_completed[i].step_index = i - 1
        /\ Len(w.errors) = 1
        /\ w.errors[1].step_index = k - 1
        /\ w.log = CleanLog(k - 1) \o << << "attempt", k - 1 >> >>

\* a workflow of three steps has just failed at its second step
C13_Witness ==
  /\ ev.op = "start_workflow"
  /\ Len(Started.steps) = 3
  /\ FailingSteps(Started.steps) = {2}
  /\ Started.status = "failed"
  /\ Len(Started.steps_completed) = 1

\* the healthy registered agents whose service lists the capability
HealthyWith(capability) ==
  { a \in DOMAIN registry.services :
      /\ capability \in registry.services[a].capabilities
      /\ registry.services[a].status = "healthy" }

\* C14 - Workflow success.  A workflow started with N steps, each of whose
\* capabilities has a healthy registered agent, is completed when
\* start_workflow returns, with N steps_completed records for steps 0..N-1 in
\* order, an empty errors log, and each step attempted only after the step
\* before it was recorded as completed.
C14_WorkflowSuccess ==
  ( /\ ev.op = "start_workflow"
    /\ \A k \in 1..Len(Started.steps) :
         HealthyWith(StepCapability(Started.steps[k])) # {} ) =>
    LET w == Started
        N == Len(w.steps)
    IN  /\ w.status = "completed"
        /\ Len(w.steps_completed) = N
        /\ \A i \in 1..N : w.steps_completed[i].step_index = i - 1
        /\ w.errors = << >>
        /\ w.current_step = N
        /\ w.log = CleanLog(N)

\* a workflow of three steps over two capabilities has just completed
C14_Witness ==
  /\ ev.op = "start_workflow"
  /\ Len(Started.steps) = 3
  /\ { StepCapability(Started.steps[k]) : k \in 1..3 } = Capabilities
  /\ \A k \in 1..3 : HealthyWith(StepCapability(Started.steps[k])) # {}
  /\ Started.status = "completed"

\* the steps the background loops take
LoopOps ==
  { "cleanup", "proc_written", "proc_failed", "proc_expired", "proc_requeue",
    "proc_put", "proc_resume" }

\* C15 - Shutdown.  After stop() has returned none of the background loops
\* performs a further step: nothing is delivered from the queue, no agent is
\* marked Offline or evicted.
C15_Shutdown == running = "stopped" => ev.op \notin LoopOps

\* the lines written to websocket w that carry an Error envelope
ErrorLines(w) == { i \in 1..Len(wire[w]) : wire[w][i].data.type = "error" }

\* C16 - MalformedMessage.  A frame that is not JSON, lacks a key from_dict
\* subscripts, or carries an unknown type or priority is answered with one
\* Error envelope on the websocket it came from; the registry, the connection
\* map and the pending requests stay as they were, and the websocket stays
\* open for the next frame.
C16_MalformedMessage ==
  [][ \A frame \in BadFrames(FrameSender) :
        ReceiveFrame(Home(FrameSender), frame) =>
          LET w == Home(FrameSender) IN
          /\ Len(wire'[w]) = Len(wire[w]) + 1
          /\ SubSeq(wire'[w], 1, Len(wire[w])) = wire[w]
          /\ LET line == wire'[w][Len(wire'[w])]
             IN  /\ line.data.type = "error"
                 /\ line.data.from = Self
                 /\ "error" \in DOMAIN line.data.payload
          /\ \A v \in Channels \ {w} : wire'[v] = wire[v]
          /\ agents' = agents
          /\ connections' = connections
          /\ pending_requests' = pending_requests
          /\ message_queue' = message_queue
          /\ chan'[w] = "open" ]_vars

\* after an Error envelope for a malformed frame, a register that came on the
\* same websocket was read and answered
C16_Witness ==
  /\ ev.op = "receive"
  /\ ev.msg.message_type = "DISCOVERY"
  /\ \E w \in Channels :
       /\ Len(wire[w]) >= 2
       /\ wire[w][Len(wire[w])].data.type = "response"
       /\ wire[w][Len(wire[w]) - 1].data.type = "error"
       /\ wire[w][Len(wire[w]) - 1].data.payload.error = "Invalid JSON format"

\* the last step dispatched a Discovery envelope with action "register"
RegisterDispatched ==
  /\ Dispatched("DISCOVERY")
  /\ "action" \in DOMAIN ev.msg.payload
  /\ ev.msg.payload.action = "register"

\* the keys of the registry
RegistryKeys == { agents[i].agent_id : i \in 1..Len(agents) }

\* C18 - Discovery register.  After a Discovery envelope with action
\* "register" from agent X was dispatched, the registry has exactly one entry
\* for X, a fresh one, and one Response was handed to the send path for X,
\* with the Discovery envelope's id as correlation_id and with the keys of the
\* registry after the upsert, X among them, as its agent list.
C18_DiscoveryRegister ==
  RegisterDispatched =>
    LET X == ev.msg.from_agent IN
    /\ Cardinality({ i \in 1..Len(agents) : agents[i].agent_id = X }) = 1
    /\ InfoOf(X).status = "ONLINE"
    /\ InfoOf(X).last_heartbeat = now
    /\ Len(ev.sent) = 1
    /\ LET r == ev.sent[1].msg IN
       /\ r.message_type = "RESPONSE"
       /\ r.to_agent = X
       /\ r.from_agent = Self
       /\ r.correlation_id = ev.msg.id
       /\ r.payload.status = "registered"
       /\ Len(r.payload.agents) = Cardinality(RegistryKeys)
       /\ { r.payload.agents[i] : i \in 1..Len(r.payload.agents) } = RegistryKeys
       /\ X \in RegistryKeys

\* an agent has registered for the second time, at a later time, beside the
\* handler and the other peer: its websocket got two acknowledgements
C18_Witness ==
  /\ RegisterDispatched
  /\ now > 0
  /\ Len(agents) = 3
  /\ LET w == Home(ev.msg.from_agent) IN
     /\ Len(wire[w]) = 2
     /\ \A i \in 1..2 : /\ wire[w][i].data.type = "response"
                        /\ wire[w][i].data.to = ev.msg.from_agent
     /\ wire[w][1].data.timestamp = 0

\* the Notification envelopes handed to the send path for agent p
NotesTo(p) ==
  { h \in hist.handed : /\ msgs[h.obj].message_type = "NOTIFICATION"
                        /\ h.to = p }

\* C19 - broadcast_notification.  When a call of broadcast_notification is
\* over, one Notification has been handed to the send path for each agent
\* that was in the registry when it was called and still is, the handler
\* excepted, and none for the handler itself.
C19_Broadcast ==
  fanout.pc \in {"done", "raised"} =>
    /\ \A i \in 1..Len(fanout.keys) :
         (fanout.keys[i] # Self /\ Registered(fanout.keys[i]))
           => Cardinality(NotesTo(fanout.keys[i])) = 1
    /\ NotesTo(Self) = {}

\* C20 - Envelope round-trip.  The envelope from_dict makes of to_dict(e)
\* has e's id, type, from, to, payload, priority, correlation_id,
\* workflow_id, timestamp and ttl, and the dict carries type and priority as
\* the enum values, for every kind and priority and with each optional field
\* set or None; from_dict raises on no such dict.
C20_RoundTrip ==
  /\ codec.stage = "dict" =>
       /\ codec.d = to_dict(codec.e)
       /\ codec.d.type = MessageType[codec.e.message_type]
       /\ codec.d.priority = MessagePriority[codec.e.priority]
       /\ from_dict_error(codec.d) = NoneType
  /\ codec.stage = "back" =>
       /\ codec.back.id = codec.e.id
       /\ codec.back.message_type = codec.e.message_type
       /\ codec.back.from_agent = codec.e.from_agent
       /\ codec.back.to_agent = codec.e.to_agent
       /\ codec.back.payload = codec.e.payload
       /\ codec.back.priority = codec.e.priority
       /\ codec.back.correlation_id = codec.e.correlation_id
       /\ codec.back.workflow_id = codec.e.workflow_id
       /\ codec.back.timestamp = codec.e.timestamp
       /\ codec.back.ttl = codec.e.ttl

\* an Error envelope of critical priority without addressee and workflow, with
\* a correlation id and a ttl set by hand, has made the round trip
C20_Witness ==
  /\ codec.stage = "back"
  /\ codec.e.message_type = "ERROR"
  /\ codec.e.priority = "CRITICAL"
  /\ codec.e.to_agent = NoAgent
  /\ codec.e.correlation_id # NoId
  /\ codec.e.workflow_id = NoId
  /\ codec.e.ttl # DefaultTTL
  /\ codec.d.type = "error"

\* the positions (2..n) of the participants whose invocation fails: the
\* request handler raises, or no Response comes
FailingAt(participants, behaviour) ==
  { j \in 2..Len(participants) : behaviour[participants[j]] # "ok" }

\* C21 - Pipeline pattern.  With every participant registered, the
\* participants from the second on are asked in list order, each with the
\* result of the one before; at the first one whose invocation fails the
\* pattern stops, asks no later participant and reports status error with
\* the results of the invocations completed before.
C21_Pipeline ==
  ( /\ coord.pattern = "pipeline"
    /\ Len(coord.participants) >= 2
    /\ \A j \in 1..Len(coord.participants) :
         coord.participants[j] \in coord.interfaces ) =>
    LET ps == coord.participants
        failing == FailingAt(ps, coord.behaviour)
        last == IF failing = {} THEN Len(ps)
                ELSE CHOOSE j \in failing : \A k \in failing : j <= k
        out == coord.out
    IN  /\ Len(out.asked) = last - 1
        /\ \A j \in 2..last :
             /\ out.asked[j - 1].agent = ps[j]
             /\ out.asked[j - 1].data = [ k \in 1..(j - 2) |-> ps[k + 1] ]
        /\ out.status = IF failing = {} THEN "success" ELSE "error"
        /\ Len(out.steps) = IF failing = {} THEN last - 1 ELSE last - 2
        /\ \A j \in 1..Len(out.steps) :
             /\ out.steps[j].agent = ps[j + 1]
             /\ out.steps[j].response.status = "success"

\* the participants whose request handler returned a vote
Voters ==
  { a \in coord.interfaces :
      /\ \E j \in 1..Len(coord.participants) : coord.participants[j] = a
      /\ coord.behaviour[a] = "ok" }

\* the number of voters whose vote is v
VotesFor(v) == Cardinality({ a \in Voters : coord.ballots[a] = v })

\* C22 - Consensus pattern.  The consensus returned is a vote that no other
\* vote of the successful responses outnumbers; failed responses are not
\* counted, and the status is error exactly when no response was successful.
C22_Consensus ==
  coord.pattern = "consensus" =>
    IF Voters = {} THEN coord.out.status = "error"
    ELSE /\ coord.out.status = "success"
         /\ VotesFor(coord.out.consensus) > 0
         /\ \A v \in {"yes", "no"} : VotesFor(v) <= VotesFor(coord.out.consensus)

\* C23 - Heartbeat handling.  After the dispatch of a Heartbeat from a
\* registered agent that agent is Online with last_heartbeat at the time of
\* the receipt, whatever its status was, and no envelope was constructed or
\* handed to the send path.
C23_HeartbeatHandling ==
  ( Dispatched("HEARTBEAT") /\ Registered(ev.msg.from_agent) ) =>
    /\ InfoOf(ev.msg.from_agent).status = "ONLINE"
    /\ InfoOf(ev.msg.from_agent).last_heartbeat = now
    /\ ev.sent = << >>
    /\ ~ev.raised
    /\ \A o \in 1..Len(msgs) : msgs[o].message_type # "HEARTBEAT"

\* both peers registered at the same time and a cleanup pass at the present
\* instant found them silent for too long: one is Offline still, the other
\* has just sent a Heartbeat
C23_Witness ==
  /\ Dispatched("HEARTBEAT")
  /\ now = A2ATimeout * 4
  /\ cleanup.wake = now + CleanupInterval
  /\ \E p \in Peers, q \in Peers :
       /\ p # q
       /\ ev.msg.from_agent = p
       /\ Registered(p) /\ Registered(q)
       /\ InfoOf(q).status = "OFFLINE"
       /\ InfoOf(q).last_heartbeat = A2ATimeout
       /\ Len(wire[Home(p)]) = 1
       /\ wire[Home(p)][1].data.timestamp = A2ATimeout

\* the envelope with the id of m sits in the queue, addressed to p
QueuedFor(m, p) ==
  \E k \in 1..Len(message_queue) :
    /\ msgs[message_queue[k]].id = m.id
    /\ msgs[message_queue[k]].to_agent = p

\* the round just made handed a Heartbeat addressed to p to _send_message,
\* which wrote it, or queued it, and the queue holds it addressed to p
HeartbeatFor(p) ==
  \E i \in 1..Len(ev.sent) :
    /\ ev.sent[i].msg.message_type = "HEARTBEAT"
    /\ ev.sent[i].msg.to_agent = p
    /\ \/ ev.sent[i].how = "written"
       \/ ev.sent[i].how = "queued" /\ QueuedFor(ev.sent[i].msg, p)

\* C24 (heartbeat fan-out): after a round of the heartbeat loop, for every
\* agent P of the registry other than the handler itself, one Heartbeat
\* envelope with to_agent = P has been written to P's channel or sits in the
\* queue with to_agent = P, also when several peers have no open channel.
C24_HeartbeatFanOut ==
  ev.op = "heartbeat" => \A p \in PeerKeys(AgentKeys(agents)) : HeartbeatFor(p)

\* the keys of a registry, and the entry stored under a key
KeysOf(ags) == { ags[i].agent_id : i \in 1..Len(ags) }
EntryOf(ags, a) == ags[CHOOSE i \in 1..Len(ags) : ags[i].agent_id = a]

\* C25 (cleanup safety): a cleanup pass leaves the handler's own registry
\* entry as it is; an agent whose last_heartbeat age is at most the timeout
\* keeps its entry and its status; an agent whose age is at most 3 x timeout
\* keeps its entry; and an agent the pass evicts is afterwards neither a key of
\* the registry nor a key of the connection map.
C25_CleanupSafety ==
  [][ CleanupPass =>
        /\ Self \in KeysOf(agents) =>
              /\ Self \in KeysOf(agents')
              /\ EntryOf(agents', Self) = EntryOf(agents, Self)
        /\ \A a \in KeysOf(agents) :
              /\ Age(EntryOf(agents, a)) <= A2ATimeout =>
                    /\ a \in KeysOf(agents')
                    /\ EntryOf(agents', a) = EntryOf(agents, a)
              /\ Age(EntryOf(agents, a)) <= A2ATimeout * 3 =>
                    a \in KeysOf(agents')
              /\ a \notin KeysOf(agents') =>
                    \A i \in 1..Len(connections') : connections'[i][1] # a
    ]_vars

\* a pass has just evicted a peer that had a connection entry, while the
\* handler's own entry is older than 3 x timeout and another peer, heard of
\* within the timeout, is Online
C25_Witness ==
  /\ ev.op = "cleanup"
  /\ Self \in KeysOf(agents)
  /\ Age(EntryOf(agents, Self)) > A2ATimeout * 3
  /\ EntryOf(agents, Self).status = "ONLINE"
  /\ \E p, q \in Peers :
       /\ p \notin KeysOf(agents)
       /\ hist.first_bound[p] # -1
       /\ p \notin Bound
       /\ q \in KeysOf(agents)
       /\ Age(EntryOf(agents, q)) <= A2ATimeout
       /\ EntryOf(agents, q).status = "ONLINE"

\* what a step of the delivery loop is observed as
ProcOps ==
  { "proc_written", "proc_failed", "proc_expired", "proc_requeue", "proc_put" }

\* the envelope m is in the delivery system: in the queue, or held by the
\* processor during the sleep before its re-queue
InDelivery(m) ==
  \/ \E k \in 1..Len(message_queue) : msgs[message_queue[k]].id = m.id
  \/ proc.pc = "sleep" /\ msgs[proc.held].id = m.id

\* C26 (unbounded retry): an envelope of the delivery queue leaves the
\* delivery system only by a successful write to its target's channel or by
\* the expiry of its ttl: after a step of the delivery loop that took an
\* envelope and neither wrote it nor found it expired, a failed write
\* included, the envelope is in the queue or with the processor for re-queue.
C26_UnboundedRetry ==
  (ev.op \in ProcOps /\ ~InDelivery(ev.msg)) =>
    \/ ev.op = "proc_written"
    \/ ev.op = "proc_expired" /\ Expired(ev.msg)

\* C27 (background-loop resilience): an exception raised inside an iteration
\* of the heartbeat loop, the delivery loop or the cleanup loop does not end
\* the loop: in a handler that is started, the delivery loop that caught a
\* failed write comes back to its queue.get(), and heartbeat rounds and
\* cleanup passes are made again and again, whatever failed in the rounds
\* before.
C27_LoopResilience ==
  /\ [](proc.pc = "errsleep" => <>(proc.pc = "get"))
  /\ [](proc.pc \in {"get", "sleep", "errsleep"})
  /\ []<><<HeartbeatRound>>_vars
  /\ []<><<CleanupPass>>_vars

\* the delivery loop has just caught a failed write, and hand-overs of
\* heartbeat rounds have failed before
C27_Witness ==
  /\ ev.op = "proc_failed"
  /\ proc.pc = "errsleep"
  /\ stats.errors >= 1

\* the websocket w is closed and its _handle_connection has finished
Finished(w) == chan[w] \in {"free", "dead"}

\* C28 (connection map hygiene): after an envelope from agent X was read from
\* a channel, X has an entry in the connection map; and once a channel is
\* closed and its connection handler has finished, no entry of the connection
\* map refers to that channel, also when envelopes with several from_agent
\* ids were read from it.
C28_ConnectionHygiene ==
  /\ ev.op = "receive" => ev.msg.from_agent \in Bound
  /\ \A w \in Channels :
       Finished(w) => \A i \in 1..Len(connections) : connections[i][2] # w

\* the registered services with status healthy that list the capability
HealthyListing(capability) ==
  { a \in DOMAIN registry.services :
      /\ registry.services[a].status = "healthy"
      /\ capability \in registry.services[a].capabilities }

\* C29 (best-agent selection): for every capability c, find_best_agent(c)
\* returns None when no registered healthy service lists c, and otherwise a
\* healthy service that lists c and whose last_seen is the oldest of all of
\* them.
C29_BestAgent ==
  \A c \in Capabilities, ord \in AgentOrders :
    LET best == find_best_agent(registry, c, ord) IN
    IF HealthyListing(c) = {} THEN best = NoAgent
    ELSE /\ best \in HealthyListing(c)
         /\ \A b \in HealthyListing(c) :
              registry.services[best].last_seen <= registry.services[b].last_seen

\* the object msgs[o] waits in the delivery queue, or with the processor for
\* its re-queue
Waiting(o) ==
  \/ \E k \in 1..Len(message_queue) : message_queue[k] = o
  \/ proc.pc = "sleep" /\ proc.held = o

\* C30 (queued envelopes keep their address): while an envelope waits in the
\* delivery queue its to_agent is the one it had when _send_message put it
\* there, for every time it was put there, the fan-out of the heartbeat loop
\* included.
C30_QueuedAddress ==
  \A h \in hist.handed :
    (h.how = "queued" /\ Waiting(h.obj)) => msgs[h.obj].to_agent = h.to

\* C31 (pending-table lifetime): every id in pending_requests belongs to a
\* send_request call that is still waiting; the call of every Request the
\* handler has built was entered when the Request was handed to the send
\* path; and after the step in which a call returns its response or raises
\* its timeout, the call's id is not in the table.
C31_PendingLifetime ==
  /\ \A c \in pending_requests : c \in DOMAIN calls /\ calls[c].pc = "waiting"
  /\ \A o \in 1..Len(msgs) :
       (msgs[o].message_type = "REQUEST" /\ msgs[o].from_agent = Self) =>
         msgs[o].id \in DOMAIN calls
  /\ ev.op = "send_request" =>
       ev.call \in pending_requests /\ calls[ev.call].pc = "waiting"
  /\ ev.op \in {"return", "timeout"} => ev.call \notin pending_requests

\* one call has returned its response, another has raised its timeout, and
\* the table is empty
C31_Witness ==
  /\ pending_requests = {}
  /\ \E c1, c2 \in DOMAIN calls :
       calls[c1].pc = "returned" /\ calls[c2].pc = "timeout"

\* C32 (fan-outs tolerate registry changes): a step of broadcast_notification
\* raises nothing, also when the registry gained or lost an agent while the
\* call was suspended in a channel write; and when the call is over, every
\* agent that was in the registry when it began and still is, the handler
\* excepted, has been handed a Notification.
C32_FanOutTolerance ==
  ev.op = "broadcast" =>
    /\ ~ev.raised
    /\ fanout.pc = "done" =>
         \A i \in 1..Len(fanout.keys) :
           (fanout.keys[i] # Self /\ Registered(fanout.keys[i]))
             => NotesTo(fanout.keys[i]) # {}

\* C33 (nested requests): when a handler that serves a Request of peer B read
\* from channel W calls send_request to B, a Response of B that arrives on W
\* is dispatched and resolves the call: the call does not time out while that
\* Response waits on W to be read.
C33_NestedRequest ==
  ev.op = "nested_timeout" =>
    \A k \in 1..Len(nest.inbox) :
      ~( /\ nest.inbox[k].type = "response"
         /\ nest.inbox[k].correlation_id = ev.call )

\* C34 (per-peer send order): two envelopes handed to the send path for the
\* same target, in that order, are written to that agent's channel in the
\* same order, whatever mix of direct writes, queueing and re-queueing
\* delivers them. An envelope's serial is the order of its hand-over.
C34_SendOrder ==
  \A w \in Channels : \A i, j \in 1..Len(wire[w]) :
    ( /\ i < j
      /\ wire[w][i].data.from = Self
      /\ wire[w][j].data.from = Self
      /\ wire[w][i].data.to = wire[w][j].data.to )
      => wire[w][i].data.id[2] < wire[w][j].data.id[2]

\* the agents the index lists under a capability
Indexed(c) ==
  IF c \in DOMAIN registry.capability_index THEN registry.capability_index[c]
  ELSE {}

\* C35 (capability index consistency): after any sequence of register_service,
\* unregister_service and cleanup_stale_services, an agent id is in
\* capability_index[c] exactly when the agent is registered and its current
\* capability list contains c.
C35_IndexConsistency ==
  \A c \in Capabilities, a \in Peers :
    a \in Indexed(c) <=>
      (a \in DOMAIN registry.services /\ c \in registry.services[a].capabilities)

\* the record of a workflow is finished
Finalised(workflow) == workflow.status \in {"completed", "failed"}

\* C36 (orchestrator record): for a workflow with N steps the record keeps
\* len(steps_completed) = current_step <= N, errors holds at most one entry,
\* the status is failed exactly when errors is not empty, a completed
\* workflow has current_step = N, and a completed or failed record changes
\* only when start_workflow is called again with its id.
C36_WorkflowRecord ==
  /\ [](\A id \in DOMAIN active_workflows :
         LET workflow == active_workflows[id] IN
         /\ Len(workflow.steps_completed) = workflow.current_step
         /\ workflow.current_step <= Len(workflow.steps)
         /\ Len(workflow.errors) <= 1
         /\ workflow.status = "failed" <=> workflow.errors # << >>
         /\ workflow.status = "completed" =>
              workflow.current_step = Len(workflow.steps))
  /\ [][\A id \in DOMAIN active_workflows :
          ( /\ Finalised(active_workflows[id])
            /\ ~(ev'.op = "start_workflow" /\ ev'.call = id) )
            => /\ id \in DOMAIN active_workflows'
               /\ active_workflows'[id] = active_workflows[id]]_vars

\* a workflow failed at its second step, and the registry moved on since
C36_Witness ==
  /\ ev.op \in {"register_agent", "health_check"}
  /\ \E id \in DOMAIN active_workflows :
       /\ active_workflows[id].status = "failed"
       /\ active_workflows[id].current_step = 1
       /\ Len(active_workflows[id].errors) = 1

\* the step just taken read a "step_complete" for a workflow id the table
\* does not hold
UnknownStepComplete ==
  /\ ev'.op = "receive"
  /\ ev'.msg.message_type = "WORKFLOW"
  /\ PayloadGet(ev'.msg.payload, "action", NoneType) = "step_complete"
  /\ ev'.msg.workflow_id \notin DOMAIN handler_workflows

\* C37 (protocol-level workflow tracking): for a workflow recorded by a
\* "start" message, after any sequence of "step_complete" messages
\* current_step never exceeds the number of steps and the status is
\* completed exactly when current_step equals the number of steps; a
\* "step_complete" for an unknown workflow id changes nothing.
C37_WorkflowTracking ==
  /\ [](\A id \in DOMAIN handler_workflows :
         LET workflow == handler_workflows[id] IN
         /\ workflow.current_step <= Len(workflow.steps)
         /\ workflow.status = "completed" <=>
              workflow.current_step = Len(workflow.steps))
  /\ [][UnknownStepComplete => handler_workflows' = handler_workflows]_vars

\* the keys of self.agents
KeySet(ags) == { ags[i].agent_id : i \in 1..Len(ags) }

\* the step just taken read an envelope that is no Discovery message from an
\* agent id the registry does not hold
FromUnregistered ==
  /\ ev'.op = "receive"
  /\ ev'.msg.message_type \in
       {"HEARTBEAT", "REQUEST", "RESPONSE", "NOTIFICATION", "WORKFLOW"}
  /\ ev'.msg.from_agent \notin KeySet(agents)

\* the step just taken was the self-registration or read a Discovery register
Registering ==
  \/ ev'.op = "start"
  \/ /\ ev'.op = "receive"
     /\ ev'.msg.message_type = "DISCOVERY"
     /\ PayloadGet(ev'.msg.payload, "action", NoneType) = "register"

\* C38 (registry entries): entries of the registry are created only by a
\* Discovery register message or by self-registration; a Heartbeat, Request,
\* Response, Notification or Workflow message from an agent id that is not in
\* the registry leaves the keys of the registry unchanged.
C38_RegistryEntries ==
  [][ /\ FromUnregistered => AgentKeys(agents') = AgentKeys(agents)
      /\ ~(KeySet(agents') \subseteq KeySet(agents)) => Registering ]_vars

\* an unregistered peer, bound to its websocket, has sent a heartbeat and is
\* still unknown, while another peer is registered
C38_Witness ==
  /\ ev.op = "receive"
  /\ ev.msg.message_type = "HEARTBEAT"
  /\ ev.msg.from_agent \notin KeySet(agents)
  /\ ev.msg.from_agent \in Bound
  /\ KeySet(agents) \cap Peers # {}

====
